---- MODULE Spec2Model ----
(***************************************************************************)
(* Bulk spreadsheet validation (looperrorsolve.py): the batch coordinator  *)
(* validate_and_add_error_columns, the sheet processor                     *)
(* process_sheet_with_validation, the row checks, validate_datatypes and   *)
(* the reference cache (_link_cache, _link_cache_sizes).                   *)
(*                                                                         *)
(* Python strings are sequences of one-character strings, so that strip,   *)
(* lower, str and the header normalisation are computed, not assumed.      *)
(* A Python value is a record [t, s, n]: t the type, s the characters of a *)
(* str, n the number of an int/bool, the tenths of a float, or yyyymmdd of *)
(* a date/datetime (a datetime cell is at midnight).                       *)
(***************************************************************************)
EXTENDS Integers, Sequences, FiniteSets, TLC

\* ------------------------------------------------------------ bounds
\* Data rows of a short sheet.
MaxRows == 2
\* Data rows of a sheet whose cells range over the type pools.
MaxTypeRows == 1
\* Data rows of the long sheets (enough to pass the checkpoint at row 100).
LongRows == 101
\* Batch runs in one process (the cache outlives a run).
MaxRuns == 2
\* Changes of the backing store by other users.
MaxStoreChanges == 1
\* The clock advances MaxTicks times at most, by TickStep seconds each time.
MaxTicks == 2
TickStep == 61

\* ------------------------------------------------------------ program constants
VALIDATION_TIMEOUT == 120
SHEET_TIMEOUT == 60
LINK_CACHE_LIMIT == 5000
\* "if row_idx % 100 == 0"
CHECK_EVERY == 100
\* enumerate(all_rows, start=2)
FIRST_ROW_IDX == 2
\* get_link_suggestions(..., max_suggestions=3)
MAX_SUGGESTIONS == 3
\* 1900 <= int(y)
MIN_YEAR == 1900

\* ------------------------------------------------------------ Python values
PyNone == [t |-> "none", s |-> <<>>, n |-> 0]
PyStr(chars) == [t |-> "str", s |-> chars, n |-> 0]
PyInt(k) == [t |-> "int", s |-> <<>>, n |-> k]
PyBool(b) == [t |-> "bool", s |-> <<>>, n |-> IF b THEN 1 ELSE 0]
\* a float given in tenths: PyFloat(55) is 5.5
PyFloat(tenths) == [t |-> "float", s |-> <<>>, n |-> tenths]
PyDate(y, m, d) == [t |-> "date", s |-> <<>>, n |-> y * 10000 + m * 100 + d]
PyDateTime(y, m, d) == [t |-> "datetime", s |-> <<>>, n |-> y * 10000 + m * 100 + d]

Digits == <<"0", "1", "2", "3", "4", "5", "6", "7", "8", "9">>
UpperChars == <<"A", "B", "C", "D", "E", "F", "G", "H", "I", "J", "K", "L", "M",
                "N", "O", "P", "Q", "R", "S", "T", "U", "V", "W", "X", "Y", "Z">>
LowerChars == <<"a", "b", "c", "d", "e", "f", "g", "h", "i", "j", "k", "l", "m",
                "n", "o", "p", "q", "r", "s", "t", "u", "v", "w", "x", "y", "z">>

IsDigit(c) == \E i \in 1..10 : Digits[i] = c
DigitVal(c) == (CHOOSE i \in 1..10 : Digits[i] = c) - 1
IsSpace(c) == c = " "

\* str.lower()
LowerChar(c) ==
    IF \E i \in 1..26 : UpperChars[i] = c
    THEN LowerChars[CHOOSE i \in 1..26 : UpperChars[i] = c]
    ELSE c
Lower(s) == [i \in 1..Len(s) |-> LowerChar(s[i])]

\* str.strip()
RECURSIVE LStrip(_)
LStrip(s) == IF s # <<>> /\ IsSpace(Head(s)) THEN LStrip(Tail(s)) ELSE s
RECURSIVE RStrip(_)
RStrip(s) ==
    IF s # <<>> /\ IsSpace(s[Len(s)]) THEN RStrip(SubSeq(s, 1, Len(s) - 1)) ELSE s
Strip(s) == RStrip(LStrip(s))

\* str.replace(" ", "")
RemoveSpaces(s) == SelectSeq(s, LAMBDA c : c # " ")

\* the decimal digits of a natural number
RECURSIVE NatToStr(_)
NatToStr(k) ==
    IF k < 10 THEN <<Digits[k + 1]>> ELSE NatToStr(k \div 10) \o <<Digits[(k % 10) + 1]>>
IntToStr(k) == IF k < 0 THEN <<"-">> \o NatToStr(0 - k) ELSE NatToStr(k)
\* zero-padded to two digits, as in an ISO date
Pad2(k) == IF k < 10 THEN <<"0">> \o NatToStr(k) ELSE NatToStr(k)
RECURSIVE Pad4(_)
Pad4(s) == IF Len(s) < 4 THEN Pad4(<<"0">> \o s) ELSE s
YearOf(v) == v.n \div 10000
IsoDate(v) ==
    Pad4(NatToStr(YearOf(v))) \o <<"-">> \o Pad2((v.n \div 100) % 100) \o <<"-">> \o Pad2(v.n % 100)

\* str(value)
Str(v) ==
    CASE v.t = "none" -> <<"N", "o", "n", "e">>
      [] v.t = "str" -> v.s
      [] v.t = "int" -> IntToStr(v.n)
      [] v.t = "bool" -> IF v.n = 1 THEN <<"T", "r", "u", "e">> ELSE <<"F", "a", "l", "s", "e">>
      [] v.t = "float" ->
            (IF v.n < 0 THEN <<"-">> ELSE <<>>)
            \o NatToStr((IF v.n < 0 THEN 0 - v.n ELSE v.n) \div 10) \o <<".">>
            \o NatToStr((IF v.n < 0 THEN 0 - v.n ELSE v.n) % 10)
      [] v.t = "date" -> IsoDate(v)
      [] v.t = "datetime" ->
            IsoDate(v) \o <<" ", "0", "0", ":", "0", "0", ":", "0", "0">>

\* bool(value): None, "", 0, 0.0 and False are falsy; dates are truthy
Truthy(v) ==
    CASE v.t = "none" -> FALSE
      [] v.t = "str" -> v.s # <<>>
      [] v.t \in {"int", "bool", "float"} -> v.n # 0
      [] OTHER -> TRUE

NA == <<"N", "A">>
N_A == <<"N", "/", "A">>
na == <<"n", "a">>
n_a == <<"n", "/", "a">>

\* value in (None, "", "NA", "N/A"): == never holds between a str and a number
InNoneEmptyNA(v) == v.t = "none" \/ (v.t = "str" /\ v.s \in {<<>>, NA, N_A})

\* value is None or str(value).strip() in ("", "NA", "N/A", "na", "n/a")
IsPlaceholder(v) == v.t = "none" \/ Strip(Str(v)) \in {<<>>, NA, N_A, na, n_a}

\* ------------------------------------------------------------ clean_header
\* re.sub(r"\s*\(.*\)$", "", s): a trailing parenthetical is cut from the first
\* "(" on, with the blanks before it, when the text ends with ")"
FirstParen(s) == CHOOSE j \in 1..Len(s) : s[j] = "(" /\ \A k \in 1..(j - 1) : s[k] # "("
CutParen(s) ==
    IF s # <<>> /\ s[Len(s)] = ")" /\ \E j \in 1..(Len(s) - 1) : s[j] = "("
    THEN RStrip(SubSeq(s, 1, FirstParen(s) - 1))
    ELSE s

\* clean_header(h): None gives "", else the stripped text without its trailing
\* parenthetical, lower-cased, blanks removed
clean_header(h) ==
    IF h.t = "none" THEN <<>> ELSE RemoveSpaces(Lower(CutParen(Strip(Str(h)))))

\* ------------------------------------------------------------ numbers in text
AllDigits(s) == s # <<>> /\ \A i \in 1..Len(s) : IsDigit(s[i])
RECURSIVE DigitsToNat(_)
DigitsToNat(s) ==
    IF s = <<>> THEN 0 ELSE DigitsToNat(SubSeq(s, 1, Len(s) - 1)) * 10 + DigitVal(s[Len(s)])

Unsigned(s) == IF s # <<>> /\ s[1] \in {"+", "-"} THEN Tail(s) ELSE s
PointAt(s) == CHOOSE j \in 1..Len(s) : s[j] = "."
SpecialFloats == {<<"i", "n", "f">>, <<"n", "a", "n">>,
                  <<"i", "n", "f", "i", "n", "i", "t", "y">>}

\* float(text.strip()) for sign, digits and one decimal point, and for inf/nan;
\* [ok |-> it parses, whole |-> float.is_integer() of the result]
ParseFloat(text) ==
    LET u == Unsigned(Strip(text))
    IN  IF Lower(u) \in SpecialFloats THEN [ok |-> TRUE, whole |-> FALSE]
        ELSE IF AllDigits(u) THEN [ok |-> TRUE, whole |-> TRUE]
        ELSE IF \E j \in 1..Len(u) : u[j] = "."
        THEN LET ip == SubSeq(u, 1, PointAt(u) - 1)
                 fp == SubSeq(u, PointAt(u) + 1, Len(u))
             IN  IF (ip = <<>> \/ AllDigits(ip)) /\ (fp = <<>> \/ AllDigits(fp))
                    /\ (ip # <<>> \/ fp # <<>>)
                 THEN [ok |-> TRUE, whole |-> fp = <<>> \/ DigitsToNat(fp) = 0]
                 ELSE [ok |-> FALSE, whole |-> FALSE]
        ELSE [ok |-> FALSE, whole |-> FALSE]

\* ------------------------------------------------------------ validate_year_value
IsLeap(y) == (y % 4 = 0 /\ y % 100 # 0) \/ y % 400 = 0
DaysIn(y, m) ==
    IF m = 2 THEN (IF IsLeap(y) THEN 29 ELSE 28)
    ELSE IF m \in {4, 6, 9, 11} THEN 30 ELSE 31

\* datetime.fromisoformat(text) for the form YYYY-MM-DD
IsIsoDateText(s) ==
    /\ Len(s) = 10
    /\ s[5] = "-" /\ s[8] = "-"
    /\ AllDigits(SubSeq(s, 1, 4)) /\ AllDigits(SubSeq(s, 6, 7)) /\ AllDigits(SubSeq(s, 9, 10))
    /\ DigitsToNat(SubSeq(s, 1, 4)) >= 1
    /\ DigitsToNat(SubSeq(s, 6, 7)) \in 1..12
    /\ DigitsToNat(SubSeq(s, 9, 10)) >= 1
    /\ DigitsToNat(SubSeq(s, 9, 10))
          <= DaysIn(DigitsToNat(SubSeq(s, 1, 4)), DigitsToNat(SubSeq(s, 6, 7)))

\* int(number): a float is truncated towards zero
TruncTenths(k) == IF k < 0 THEN 0 - ((0 - k) \div 10) ELSE k \div 10

NoYear == [ok |-> FALSE, y |-> 0]
\* validate_year_value(value): [ok |-> FALSE] stands for None
validate_year_value(value) ==
    IF value.t \in {"date", "datetime"} THEN [ok |-> TRUE, y |-> YearOf(value)]
    ELSE IF value.t \in {"int", "bool"} THEN [ok |-> TRUE, y |-> value.n]
    ELSE IF value.t = "float" THEN [ok |-> TRUE, y |-> TruncTenths(value.n)]
    ELSE IF value.t = "str" /\ Len(Strip(value.s)) = 4 /\ AllDigits(Strip(value.s))
    THEN [ok |-> TRUE, y |-> DigitsToNat(Strip(value.s))]
    ELSE IF IsIsoDateText(Str(value))
    THEN [ok |-> TRUE, y |-> DigitsToNat(SubSeq(Str(value), 1, 4))]
    ELSE NoYear

\* ------------------------------------------------------------ text tests
\* sub in s
IsSubstring(sub, s) ==
    \E i \in 0..(Len(s) - Len(sub)) : SubSeq(s, i + 1, i + Len(sub)) = sub
StartsWith(s, pre) == Len(pre) <= Len(s) /\ SubSeq(s, 1, Len(pre)) = pre
EndsWith(s, suf) == Len(suf) <= Len(s) /\ SubSeq(s, Len(s) - Len(suf) + 1, Len(s)) = suf
IsWordChar(c) ==
    IsDigit(c) \/ c = "_" \/ \E i \in 1..26 : UpperChars[i] = c \/ LowerChars[i] = c
\* re.search(r"\b(w)\b", s) for one alternative w
HasWord(s, w) ==
    \E i \in 0..(Len(s) - Len(w)) :
        /\ SubSeq(s, i + 1, i + Len(w)) = w
        /\ (i = 0 \/ ~IsWordChar(s[i]))
        /\ (i + Len(w) = Len(s) \/ ~IsWordChar(s[i + Len(w) + 1]))
HasAnyWord(s, ws) == \E w \in ws : HasWord(s, w)

\* ------------------------------------------------------------ error codes
ERROR_CODE_LABELS ==
    ("LINK_NOT_FOUND" :> "Data Not Found") @@
    ("INVALID_YEAR_RANGE" :> "Invalid Year Range") @@
    ("REQUIRED_FIELD_EMPTY" :> "Required Field Empty") @@
    ("INVALID_INT" :> "Must Be a Number") @@
    ("DUPLICATE_ROW" :> "Duplicate Row") @@
    ("EMPTY_ROW" :> "Empty Row") @@
    ("INVALID_FLOAT" :> "Must Be a Decimal Number") @@
    ("INVALID_DATE" :> "Invalid Date") @@
    ("INVALID_DATETIME" :> "Invalid Date/Time") @@
    ("INVALID_YEAR" :> "Invalid Year Format") @@
    ("DUPLICATE_PRIMARY_KEY" :> "Duplicate ID") @@
    ("DUPLICATE_UNIQUE" :> "Duplicate Value") @@
    ("SHEET_NOT_FOUND" :> "Worksheet Not Found") @@
    ("NO_HEADER" :> "Header Row Missing") @@
    ("EMPTY_HEADERS" :> "Empty Header Row") @@
    ("DUPLICATE_HEADERS" :> "Duplicate Headers") @@
    ("NO_DATA_ROWS" :> "No Data Rows") @@
    ("DOCTYPE_NOT_FOUND" :> "DocType Not Found") @@
    ("DOCTYPE_ERROR" :> "DocType Error") @@
    ("LINK_CONFIG_ERROR" :> "Configuration Error") @@
    ("TIMEOUT_ERROR" :> "Processing Timeout")

\* ERROR_CODE_LABELS.get(code, code.replace('_', ' ')): PROCESSING_ERROR is the
\* one code in use that has no label
get_readable_error_code(code) ==
    IF code \in DOMAIN ERROR_CODE_LABELS THEN ERROR_CODE_LABELS[code]
    ELSE IF code = "PROCESSING_ERROR" THEN "PROCESSING ERROR"
    ELSE code

ENTIRE_ROW == <<"E", "n", "t", "i", "r", "e", " ", "R", "o", "w">>
SHEET_COLUMN == <<"S", "h", "e", "e", "t">>

\* one entry of json_errors; "error_type" is the same label as "code" for every
\* code with a label and is left out, "message" is the message's template
JsonError(sheet, row, column, code, message, value_entered, suggestions) ==
    [sheet |-> sheet, row |-> row, column |-> column,
     code |-> get_readable_error_code(code), message |-> message,
     value_entered |-> value_entered, suggestions |-> suggestions]

\* ------------------------------------------------------------ create_error_sheet
\* a faulty variant: the error sheet's result reports success
create_error_sheetAsSuccess(sheet_name, error_code, error_message) ==
    [sheet_name |-> sheet_name, success |-> TRUE, error |-> error_code,
     error_count |-> 1, total_rows |-> 0,
     json_errors |-> <<JsonError(sheet_name, 0, SHEET_COLUMN, error_code,
                                  error_message, <<>>, <<>>)>>]

create_error_sheet(sheet_name, error_code, error_message) ==
    [sheet_name |-> sheet_name, success |-> FALSE, error |-> error_code,
     error_count |-> 1, total_rows |-> 0,
     json_errors |-> <<JsonError(sheet_name, 0, SHEET_COLUMN, error_code,
                                  error_message, <<>>, <<>>)>>]

\* ------------------------------------------------------------ schema (frappe.get_meta)
\* one DocField: label and fieldname are texts (<<>> when unset), options names
\* the target DocType of a Link (<<>> when unset)
DocField(label, fieldname, fieldtype, reqd, unique, options) ==
    [label |-> label, fieldname |-> fieldname, fieldtype |-> fieldtype,
     reqd |-> reqd, unique |-> unique, options |-> options]

STUDENT == <<"S", "t", "u", "d", "e", "n", "t">>
EVENT == <<"E", "v", "e", "n", "t">>
PROGRAM == <<"P", "r", "o", "g", "r", "a", "m">>
LEDGER == <<"L", "e", "d", "g", "e", "r">>
GHOST == <<"G", "h", "o", "s", "t">>
COURSE == <<"C", "o", "u", "r", "s", "e">>
VENUE == <<"V", "e", "n", "u", "e">>
\* the DocTypes that Link fields point to
COUNTRY == <<"C", "o", "u", "n", "t", "r", "y">>
ACADEMIC_YEAR == <<"A", "c", "a", "d", "e", "m", "i", "c", " ", "Y", "e", "a", "r">>

hName == <<"N", "a", "m", "e">>
hEmail == <<"E", "m", "a", "i", "l">>
hYear == <<"Y", "e", "a", "r">>
hCountry == <<"C", "o", "u", "n", "t", "r", "y">>
hAcademicYear == <<"A", "c", "a", "d", "e", "m", "i", "c", " ", "Y", "e", "a", "r">>
hAmount == <<"A", "m", "o", "u", "n", "t">>
hNotes == <<"N", "o", "t", "e", "s">>
hSeats == <<"S", "e", "a", "t", "s">>
hMentor == <<"M", "e", "n", "t", "o", "r">>

\* the schema registry the batch is validated against: meta.fields per DocType
MetaFields(doctype) ==
    CASE doctype = STUDENT ->
            <<DocField(hName, <<"n", "a", "m", "e">>, "Data", FALSE, FALSE, <<>>),
              DocField(hEmail, <<"e", "m", "a", "i", "l">>, "Data", TRUE, TRUE, <<>>)>>
      [] doctype = EVENT ->
            <<DocField(hYear, <<"y", "e", "a", "r">>, "Int", FALSE, FALSE, <<>>),
              DocField(hCountry, <<"c", "o", "u", "n", "t", "r", "y">>, "Link", FALSE, FALSE, COUNTRY)>>
      [] doctype = PROGRAM ->
            <<DocField(hAcademicYear, <<"a", "c", "a", "d", "e", "m", "i", "c", "_", "y", "e", "a", "r">>, "Link", FALSE, FALSE, ACADEMIC_YEAR),
              DocField(hNotes, <<"n", "o", "t", "e", "s">>, "Data", FALSE, FALSE, <<>>)>>
      [] doctype = COURSE ->
            <<DocField(hSeats, <<"s", "e", "a", "t", "s">>, "Int", FALSE, FALSE, <<>>),
              DocField(hMentor, <<"m", "e", "n", "t", "o", "r">>, "Link", FALSE, FALSE, <<>>)>>
      [] doctype = VENUE ->
            <<DocField(hName, <<"v", "e", "n", "u", "e", "_", "n", "a", "m", "e">>, "Data", FALSE, FALSE, <<>>),
              DocField(hCountry, <<"c", "o", "u", "n", "t", "r", "y">>, "Link", FALSE, FALSE, COUNTRY)>>
      [] OTHER -> <<>>

\* ------------------------------------------------------------ header maps
\* headers_norm = {clean_header(h): h for h in headers}: the last header of a key wins
HeaderKeys(headers) == {clean_header(PyStr(headers[i])) : i \in 1..Len(headers)}
HeadersNormGet(headers, key) ==
    headers[CHOOSE i \in 1..Len(headers) :
                /\ clean_header(PyStr(headers[i])) = key
                /\ \A j \in (i + 1)..Len(headers) : clean_header(PyStr(headers[j])) # key]

LabelNorm(df) == IF df.label # <<>> THEN clean_header(PyStr(df.label)) ELSE <<>>
FnameNorm(df) == IF df.fieldname # <<>> THEN clean_header(PyStr(df.fieldname)) ELSE <<>>

\* the header a field is matched to: by label first, then by fieldname; <<>> is no match
MatchedHeaders(df, headers) ==
    IF LabelNorm(df) \in HeaderKeys(headers) THEN <<HeadersNormGet(headers, LabelNorm(df))>>
    ELSE IF FnameNorm(df) \in HeaderKeys(headers)
    THEN <<HeadersNormGet(headers, FnameNorm(df))>>
    ELSE <<>>

LayoutTypes == {"Section Break", "Column Break", "Tab Break"}

\* required_columns of process_sheet_with_validation, in field order
RECURSIVE RequiredFrom(_, _, _)
RequiredFrom(fields, headers, i) ==
    IF i > Len(fields) THEN <<>>
    ELSE (IF fields[i].reqd /\ fields[i].fieldtype \notin LayoutTypes
          THEN MatchedHeaders(fields[i], headers) ELSE <<>>)
         \o RequiredFrom(fields, headers, i + 1)
required_columns(fields, headers) == RequiredFrom(fields, headers, 1)

\* get_unique_columns
RECURSIVE UniqueFrom(_, _, _)
UniqueFrom(fields, headers, i) ==
    IF i > Len(fields) THEN <<>>
    ELSE (IF fields[i].unique THEN MatchedHeaders(fields[i], headers) ELSE <<>>)
         \o UniqueFrom(fields, headers, i + 1)
get_unique_columns(fields, headers) == UniqueFrom(fields, headers, 1)

\* get_primary_key: <<h>> is the column, <<>> is None
RECURSIVE PrimaryFrom(_, _, _)
PrimaryFrom(fields, headers, i) ==
    IF i > Len(fields) THEN <<>>
    ELSE IF fields[i].fieldname = <<"n", "a", "m", "e">> /\ LabelNorm(fields[i]) \in HeaderKeys(headers)
    THEN <<HeadersNormGet(headers, LabelNorm(fields[i]))>>
    ELSE IF fields[i].fieldname = <<"n", "a", "m", "e">> /\ <<"n", "a", "m", "e">> \in HeaderKeys(headers)
    THEN <<HeadersNormGet(headers, <<"n", "a", "m", "e">>)>>
    ELSE PrimaryFrom(fields, headers, i + 1)
get_primary_key(fields, headers) == PrimaryFrom(fields, headers, 1)

\* ------------------------------------------------------------ build_field_map
\* the loop over meta.fields: the label's key is overwritten, the fieldname's
\* key is set only when absent
RECURSIVE FieldMapFrom(_, _, _)
FieldMapFrom(fields, i, map) ==
    IF i > Len(fields) THEN map
    ELSE LET byLabel == IF fields[i].label # <<>>
                        THEN (LabelNorm(fields[i]) :> fields[i]) @@ map
                        ELSE map
             byName == IF fields[i].fieldname # <<>> /\ FnameNorm(fields[i]) \notin DOMAIN byLabel
                       THEN (FnameNorm(fields[i]) :> fields[i]) @@ byLabel
                       ELSE byLabel
         IN  FieldMapFrom(fields, i + 1, byName)

MoneyWords == {<<"f", "i", "n", "a", "n", "c", "i", "a", "l">>, <<"b", "u", "d", "g", "e", "t">>, <<"a", "m", "o", "u", "n", "t">>, <<"c", "o", "s", "t">>, <<"p", "r", "i", "c", "e">>, <<"r", "a", "t", "e">>}
NumberWords == {<<"c", "o", "u", "n", "t">>, <<"t", "o", "t", "a", "l">>, <<"v", "a", "l", "u", "e">>, <<"q", "t", "y">>, <<"q", "u", "a", "n", "t", "i", "t", "y">>, <<"r", "a", "n", "k", "i", "n", "g">>, <<"i", "n", "d", "e", "x">>,
                <<"s", "t", "r", "e", "n", "g", "t", "h">>, <<"p", "o", "s", "i", "t", "i", "o", "n">>, <<"v", "a", "c", "a", "n", "t">>, <<"r", "a", "t", "i", "o">>, <<"c", "u", "r", "r", "e", "n", "c", "y">>}

\* the fieldtype build_field_map guesses from a header when the schema has no field
GuessFieldtype(h) ==
    LET low == Lower(h)
    IN  IF clean_header(PyStr(h)) = <<"y", "e", "a", "r">> THEN "Int"
        ELSE IF IsSubstring(<<"d", "a", "t", "e">>, low) THEN "Date"
        ELSE IF HasAnyWord(low, MoneyWords)
        THEN (IF IsSubstring(<<"r", "a", "t", "e">>, low) \/ IsSubstring(<<"p", "r", "i", "c", "e">>, low)
                 \/ IsSubstring(<<"f", "i", "n", "a", "n", "c", "i", "a", "l">>, low)
              THEN "Currency" ELSE "Float")
        ELSE IF HasAnyWord(low, NumberWords)
        THEN (IF IsSubstring(<<"&">>, low) \/ IsSubstring(<<"t", "i", "t", "l", "e">>, low)
                 \/ IsSubstring(<<"c", "a", "s", "e">>, low) \/ IsSubstring(<<"n", "a", "m", "e">>, low)
              THEN "Data" ELSE "Float")
        ELSE "Data"

RECURSIVE HeaderFieldsFrom(_, _, _)
HeaderFieldsFrom(headers, i, map) ==
    IF i > Len(headers) THEN map
    ELSE HeaderFieldsFrom(headers, i + 1,
            (clean_header(PyStr(headers[i])) :>
                DocField(headers[i], clean_header(PyStr(headers[i])),
                         GuessFieldtype(headers[i]), FALSE, FALSE, <<>>))
            @@ map)

EmptyMap == [k \in {} |-> 0]

\* build_field_map(meta, headers): a function from key to DocField
build_field_map(fields, headers) ==
    IF DOMAIN FieldMapFrom(fields, 1, EmptyMap) = {} /\ headers # <<>>
    THEN HeaderFieldsFrom(headers, 1, EmptyMap)
    ELSE FieldMapFrom(fields, 1, EmptyMap)

\* ------------------------------------------------------------ state
VARIABLES
    wb,                 \* wb_input: the sheets, each [name, header_row, rows]
    today_year,         \* datetime.date.today().year
    set_order,          \* the order in which this process iterates a set of names
    store,              \* the backing store: [doctypes, recs]
    store_changes,      \* how often other users have changed the store
    link_cache,         \* _link_cache: DocType -> materialized identifiers
    link_cache_sizes,   \* _link_cache_sizes: DocType -> counted records
    now,                \* time.time(), in seconds since the first run began
    run,                \* batch runs started in this process
    pc,                 \* "idle", "sheets" (the loop over sheets), "rows", "done"
    skip_links,         \* skip_link_validation == "1"
    start_time,         \* start_time of validate_and_add_error_columns
    sheet_idx,          \* the sheet the loop is at (1-based)
    sheet_start,        \* sheet_start of the loop body
    sheet_input,        \* the index in wb of the worksheet being read
    headers,            \* headers of the sheet being processed
    row_i,              \* data rows of the sheet consumed so far
    json_errors,        \* json_errors of process_sheet_with_validation
    seen_rows, seen_unique, seen_primary,
    ws_output,          \* rows appended to the output sheet: [row, error_val, error_count]
    overall_stats,      \* overall_stats of the running batch
    response,           \* the report the last finished run returned
    race,               \* runs populating the cache concurrently, statement by statement
    hist                \* what the properties need of the past (no effect on the program)

vars == <<wb, today_year, set_order, store, store_changes, link_cache, link_cache_sizes,
          now, run, pc, skip_links, start_time, sheet_idx, sheet_start, sheet_input,
          headers, row_i, json_errors, seen_rows, seen_unique, seen_primary, ws_output,
          overall_stats, response, race, hist>>

\* _link_cache = {} and _link_cache_sizes = {} at import
EmptyCache == [k \in {} |-> 0]

\* ------------------------------------------------------------ backing store
\* the records of one DocType: the identifiers the sheets can name (ids) and
\* anon further records whose names match nothing a sheet enters
StoreRecs(ids, anon) == [ids |-> ids, anon |-> anon]
\* frappe.db.count(doctype)
DbCount(st, doctype) == Cardinality(st.recs[doctype].ids) + st.recs[doctype].anon
\* frappe.db.exists(doctype, name)
DbExists(st, doctype, name) == name \in st.recs[doctype].ids
\* set(frappe.get_all(doctype, pluck="name"))
DbGetAll(st, doctype) == st.recs[doctype]
\* frappe.db.exists("DocType", doctype)
DocTypeExists(st, doctype) == doctype \in st.doctypes \/ doctype \in DOMAIN st.recs

\* ------------------------------------------------------------ prefetch_link_caches
\* link_doctypes: the targets of the schema's Link fields
LinkDoctypes(fields) ==
    {fields[i].options : i \in {j \in 1..Len(fields) :
                                  fields[j].fieldtype = "Link" /\ fields[j].options # <<>>}}

PrefetchOutcomes == {"ok", "count_raises", "get_all_raises"}

\* a faulty variant: the prefetch records the size but never stores the names
PrefetchCacheNever(cache, st, linked_dt, outcome) == cache

\* the cache after the loop body for one linked DocType; outcome says which
\* backing-store call, if any, raised (the except clause only logs)
PrefetchCache(cache, st, linked_dt, outcome) ==
    IF outcome = "ok" /\ DbCount(st, linked_dt) <= LINK_CACHE_LIMIT
    THEN (linked_dt :> DbGetAll(st, linked_dt)) @@ cache
    ELSE cache

\* the size table after the loop body for one linked DocType
PrefetchSizes(sizes, st, linked_dt, outcome) ==
    IF outcome # "count_raises"
    THEN (linked_dt :> DbCount(st, linked_dt)) @@ sizes
    ELSE sizes

RECURSIVE PrefetchAll(_, _, _, _, _)
PrefetchAll(cache, sizes, st, dts, outcome) ==
    IF dts = {} THEN [cache |-> cache, sizes |-> sizes]
    ELSE LET dt == CHOOSE d \in dts : TRUE
         IN  PrefetchAll(PrefetchCache(cache, st, dt, outcome),
                         PrefetchSizes(sizes, st, dt, outcome), st, dts \ {dt}, outcome)

\* the DocTypes whose entry the prefetch assigns: "_link_cache[linked_dt] = set(...)"
PrefetchWrites(st, fields, outcome) ==
    {dt \in LinkDoctypes(fields) : dt \in DOMAIN PrefetchCache(EmptyCache, st, dt, outcome)}

\* prefetch_link_caches(doctype, meta): [cache, sizes] afterwards
prefetch_link_caches(cache, sizes, st, fields, outcome) ==
    PrefetchAll(cache, sizes, st, LinkDoctypes(fields), outcome)

\* ------------------------------------------------------------ link_exists
\* for cached_name in _link_cache[doctype]: str(cached_name).lower() == name_lower
CacheHasLower(entry, name_str) == \E c \in entry.ids : Lower(c) = Lower(name_str)

INIT_NAME == <<"_", "_", "i", "n", "i", "t", "_", "_">>

\* link_exists(doctype, name): [result, cache, sizes]; db_ok = FALSE is a
\* backing-store call raising, which the function turns into False
link_exists(cache, sizes, st, doctype, name, db_ok) ==
    LET same == [result |-> FALSE, cache |-> cache, sizes |-> sizes]
    IN  IF doctype = <<>> \/ name = <<>> THEN same
        ELSE IF ~db_ok \/ ~DocTypeExists(st, doctype) THEN same
        ELSE IF doctype \in DOMAIN sizes /\ sizes[doctype] > LINK_CACHE_LIMIT
        THEN [same EXCEPT !.result = DbExists(st, doctype, Strip(name))]
        ELSE IF doctype \notin DOMAIN cache
        THEN IF DbCount(st, doctype) > LINK_CACHE_LIMIT
             THEN [result |-> DbExists(st, doctype, name), cache |-> cache,
                   sizes |-> (doctype :> DbCount(st, doctype)) @@ sizes]
             ELSE [result |-> CacheHasLower(DbGetAll(st, doctype), Strip(name)),
                   cache |-> (doctype :> DbGetAll(st, doctype)) @@ cache,
                   sizes |-> sizes]
        ELSE [same EXCEPT !.result = CacheHasLower(cache[doctype], Strip(name))]

\* ------------------------------------------------------------ get_link_suggestions
\* the names of a set in this process's iteration order
IterSeq(ids, order) == SelectSeq(order, LAMBDA x : x \in ids)
\* a faulty variant: the suggestions are not capped
FirstNUncapped(seq, k) == seq
FirstN(seq, k) == IF Len(seq) <= k THEN seq ELSE SubSeq(seq, 1, k)

\* name_lower in cached.lower() or cached.lower() in name_lower
SuggestMatch(cached_name, name) ==
    IsSubstring(Lower(name), Lower(cached_name)) \/ IsSubstring(Lower(cached_name), Lower(name))

\* a faulty variant: building suggestions also notes the looked-up name in the
\* cached set
SuggestStateMemo(cache, sizes, st, doctype, name, db_ok) ==
    IF doctype \notin DOMAIN cache
    THEN [cache |-> link_exists(cache, sizes, st, doctype, INIT_NAME, db_ok).cache,
          sizes |-> link_exists(cache, sizes, st, doctype, INIT_NAME, db_ok).sizes]
    ELSE [cache |-> [cache EXCEPT ![doctype].ids = @ \cup {name}], sizes |-> sizes]

\* the cache and size table after get_link_suggestions has looked at them: an
\* absent entry is built by link_exists(doctype, "__init__")
SuggestState(cache, sizes, st, doctype, name, db_ok) ==
    IF doctype \notin DOMAIN cache
    THEN [cache |-> link_exists(cache, sizes, st, doctype, INIT_NAME, db_ok).cache,
          sizes |-> link_exists(cache, sizes, st, doctype, INIT_NAME, db_ok).sizes]
    ELSE [cache |-> cache, sizes |-> sizes]

\* get_link_suggestions(doctype, name): the suggestions, at most max_suggestions
get_link_suggestions(cache, sizes, st, doctype, name, db_ok, order) ==
    LET after == SuggestState(cache, sizes, st, doctype, name, db_ok).cache
    IN  IF doctype \in DOMAIN after
        THEN FirstN(SelectSeq(IterSeq(after[doctype].ids, order),
                              LAMBDA c : SuggestMatch(c, name)), MAX_SUGGESTIONS)
        ELSE <<>>

\* ------------------------------------------------------------ validate_link_field
\* existing = _link_cache.get(linked_doctype); "if existing" is false for an
\* absent and for an empty set
CacheResolves(cache, linked_doctype, value_str) ==
    /\ linked_doctype \in DOMAIN cache
    /\ \E c \in cache[linked_doctype].ids : Lower(Strip(c)) = Lower(value_str)

\* a faulty variant: the reference is looked up in the cached set only
LinkResolvesCacheOnly(cache, st, linked_doctype, value_str) ==
    CacheResolves(cache, linked_doctype, value_str)

\* does the reference resolve (validate_link_field returns None after its lookups)
LinkResolves(cache, st, linked_doctype, value_str) ==
    DbExists(st, linked_doctype, value_str) \/ CacheResolves(cache, linked_doctype, value_str)

\* a faulty variant: the skip flag is not looked at
SkipsLinkCheckValueOnly(skip_link_validation, value) == ~Truthy(value)

\* "if skip_link_validation or not value: return None"
SkipsLinkCheck(skip_link_validation, value) == skip_link_validation \/ ~Truthy(value)

\* validate_link_field: [errs, cache, sizes, raised, looks]; errs holds the error
\* dictionary, if any; raised is frappe.db.exists raising; looks notes the
\* lookup made: the target, the text, whether it resolved, and whether the
\* target had a materialized set at that moment
validate_link_field(df, value, label, skip_link_validation, cache, sizes, st, db_ok, order) ==
    LET none == [errs |-> <<>>, cache |-> cache, sizes |-> sizes, raised |-> FALSE,
                 looks |-> <<>>]
        value_str == Strip(Str(value))
        look == [doctype |-> df.options, value |-> value_str,
                 resolved |-> LinkResolves(cache, st, df.options, value_str),
                 materialized |-> df.options \in DOMAIN cache]
    IN  IF SkipsLinkCheck(skip_link_validation, value) THEN none
        ELSE IF df.options = <<>>
        THEN [none EXCEPT !.errs = <<[column |-> label, code |-> "LINK_CONFIG_ERROR",
                                      message |-> "No target DocType",
                                      suggestions |-> <<>>]>>]
        ELSE IF ~db_ok \/ df.options \notin DOMAIN st.recs
        THEN [none EXCEPT !.raised = TRUE]
        ELSE IF LinkResolves(cache, st, df.options, value_str)
        THEN [none EXCEPT !.looks = <<look>>]
        ELSE [errs |-> <<[column |-> label, code |-> "LINK_NOT_FOUND",
                          message |-> "{label}: '{original_value}' not found in {linked_doctype}",
                          suggestions |-> get_link_suggestions(cache, sizes, st, df.options,
                                                               value_str, db_ok, order)]>>,
              cache |-> SuggestState(cache, sizes, st, df.options, value_str, db_ok).cache,
              sizes |-> SuggestState(cache, sizes, st, df.options, value_str, db_ok).sizes,
              raised |-> FALSE, looks |-> <<look>>]

\* ------------------------------------------------------------ validate_datatypes
OptionalColumns == {<<"i", "d">>, <<"i", "n", "s", "t", "i", "t", "u", "t", "e">>, <<"n", "o", "t", "e", "s">>, <<"d", "e", "s", "c", "r", "i", "p", "t", "i", "o", "n">>, <<"b", "r", "i", "e", "f">>, <<"d", "e", "t", "a", "i", "l", "s">>,
                    <<"r", "e", "m", "a", "r", "k", "s">>, <<"c", "o", "m", "m", "e", "n", "t", "s">>}

\* key in optional_columns or label.lower().startswith("id ")
IsOptional(label) ==
    clean_header(PyStr(label)) \in OptionalColumns \/ StartsWith(Lower(label), <<"i", "d", " ">>)

\* "year" in label.lower() and len(label) < 15
IsYearByName(label) == IsSubstring(<<"y", "e", "a", "r">>, Lower(label)) /\ Len(label) < 15

\* class DummyField: fieldtype = "Int"; fieldname = "year"
DummyField == DocField(<<>>, <<"y", "e", "a", "r">>, "Int", FALSE, FALSE, <<>>)

HasField(field_map, label) ==
    clean_header(PyStr(label)) \in DOMAIN field_map \/ IsYearByName(label)
FieldOf(field_map, label) ==
    IF clean_header(PyStr(label)) \in DOMAIN field_map
    THEN field_map[clean_header(PyStr(label))]
    ELSE DummyField

\* is_year_field, for a column that has a field
IsYearField(field_map, label) ==
    \/ clean_header(PyStr(label)) = <<"y", "e", "a", "r">>
    \/ EndsWith(clean_header(PyStr(label)), <<"_", "y", "e", "a", "r">>)
    \/ FieldOf(field_map, label).fieldname = <<"y", "e", "a", "r">>
    \/ IsYearByName(label)

\* a faulty variant: no lower limit
YearInRangeNoFloor(y, year_now) == y <= year_now + 1
\* a faulty variant: the current year is the last one allowed
YearInRangeThisYear(y, year_now) == MIN_YEAR <= y /\ y <= year_now

\* 1900 <= int(y) <= datetime.date.today().year + 1
YearInRange(y, year_now) == MIN_YEAR <= y /\ y <= year_now + 1

TypeError(label, code, message) ==
    [column |-> label, code |-> code, message |-> message, suggestions |-> <<>>]

\* a faulty variant: a float is accepted whatever its fraction
IsValidIntAnyFloat(value) ==
    \/ value.t \in {"int", "bool", "float"}
    \/ value.t = "str" /\ ParseFloat(value.s).ok /\ ParseFloat(value.s).whole

\* the Int/Check test
IsValidInt(value) ==
    \/ value.t \in {"int", "bool"}
    \/ value.t = "float" /\ value.n % 10 = 0
    \/ value.t = "str" /\ ParseFloat(value.s).ok /\ ParseFloat(value.s).whole
\* the Float/Currency/Percent test
IsValidFloat(value) ==
    \/ value.t \in {"int", "bool", "float"}
    \/ value.t = "str" /\ ParseFloat(value.s).ok

\* the numeric and date checks at the end of the loop body
PlainTypeErrors(ft, label, value) ==
    IF ft \in {"Int", "Check"}
    THEN (IF IsValidInt(value) THEN <<>>
          ELSE <<TypeError(label, "INVALID_INT", "'{value}' is not a valid number")>>)
    ELSE IF ft \in {"Float", "Currency", "Percent"}
    THEN (IF IsValidFloat(value) THEN <<>>
          ELSE <<TypeError(label, "INVALID_FLOAT", "'{value}' is not a valid number")>>)
    ELSE IF ft = "Date"
    THEN (IF value.t \in {"date", "datetime"} THEN <<>>
          ELSE <<TypeError(label, "INVALID_DATE", "Invalid date format")>>)
    ELSE IF ft = "Datetime"
    THEN (IF value.t = "datetime" THEN <<>>
          ELSE <<TypeError(label, "INVALID_DATETIME", "Invalid datetime format")>>)
    ELSE <<>>

\* the year block: [errs, stop]; stop is the "continue" that ends the column
YearCheck(ft, label, value, year_now) ==
    IF ~validate_year_value(value).ok
    THEN [errs |-> <<TypeError(label, "INVALID_YEAR", "Invalid year: {value}")>>,
          stop |-> TRUE]
    ELSE [errs |-> IF YearInRange(validate_year_value(value).y, year_now) THEN <<>>
                   ELSE <<TypeError(label, "INVALID_YEAR_RANGE",
                                    "Year {y} out of allowed range 1900-{today.year + 1}")>>,
          stop |-> ft # "Link"]

\* the branches of one turn of "for label, value in row_dict.items()", given
\* the column's field df, the year block's outcome yc and the link check's lk
CellResult(label, value, field_map, df, yc, lk, none) ==
    IF IsPlaceholder(value)
    THEN (IF IsOptional(label) THEN none
          ELSE [none EXCEPT !.errs = <<TypeError(label, "REQUIRED_FIELD_EMPTY",
                                                 "Field '{label}' is empty")>>])
    ELSE IF ~HasField(field_map, label) THEN none
    ELSE IF IsYearField(field_map, label) /\ yc.stop
    THEN [none EXCEPT !.errs = yc.errs]
    ELSE IF df.fieldtype = "Link"
    THEN [lk EXCEPT !.errs = (IF IsYearField(field_map, label) THEN yc.errs ELSE <<>>)
                             \o lk.errs]
    ELSE [none EXCEPT !.errs = PlainTypeErrors(df.fieldtype, label, value)]

\* one turn of "for label, value in row_dict.items()":
\* [errs, cache, sizes, raised, looks]
CellCheck(label, value, field_map, skip, cache, sizes, st, db_ok, order, year_now) ==
    CellResult(label, value, field_map, FieldOf(field_map, label),
               YearCheck(FieldOf(field_map, label).fieldtype, label, value, year_now),
               validate_link_field(FieldOf(field_map, label), value, label, skip, cache,
                                   sizes, st, db_ok, order),
               [errs |-> <<>>, cache |-> cache, sizes |-> sizes, raised |-> FALSE,
                looks |-> <<>>])

\* row_dict = dict(zip(headers, row)): the columns both have
RowDictLen(hdrs, row) == IF Len(hdrs) < Len(row) THEN Len(hdrs) ELSE Len(row)
\* row_dict.get(col)
RowGet(hdrs, row, col) ==
    IF \E i \in 1..RowDictLen(hdrs, row) : hdrs[i] = col
    THEN row[CHOOSE i \in 1..RowDictLen(hdrs, row) : hdrs[i] = col]
    ELSE PyNone

\* the errors and lookups of a column followed by those of the later columns
JoinChecks(c, rest) ==
    [rest EXCEPT !.errs = c.errs \o rest.errs, !.looks = c.looks \o rest.looks]

RECURSIVE ValidateFrom(_, _, _, _, _, _, _, _, _, _, _)
\* the loop after column i gave c: an exception ends it, else the later columns
\* see the cache c left
ValidateAfter(c, i, hdrs, row, field_map, skip, st, db_ok, order, year_now) ==
    IF c.raised THEN c
    ELSE JoinChecks(c, ValidateFrom(i + 1, hdrs, row, field_map, skip, c.cache, c.sizes, st,
                                    db_ok, order, year_now))

ValidateFrom(i, hdrs, row, field_map, skip, cache, sizes, st, db_ok, order, year_now) ==
    IF i > RowDictLen(hdrs, row)
    THEN [errs |-> <<>>, cache |-> cache, sizes |-> sizes, raised |-> FALSE,
          looks |-> <<>>]
    ELSE ValidateAfter(CellCheck(hdrs[i], row[i], field_map, skip, cache, sizes, st, db_ok,
                                 order, year_now),
                       i, hdrs, row, field_map, skip, st, db_ok, order, year_now)

\* validate_datatypes(...): the errors of one row, the cache afterwards, and
\* whether an exception left the function
validate_datatypes(hdrs, row, field_map, skip, cache, sizes, st, db_ok, order, year_now) ==
    ValidateFrom(1, hdrs, row, field_map, skip, cache, sizes, st, db_ok, order, year_now)

\* ------------------------------------------------------------ the row loop body
\* a faulty variant: only None cells count as blank
IsEmptyRowNoneOnly(hdrs, row) == \A i \in 1..RowDictLen(hdrs, row) : row[i].t = "none"

\* all(v is None or str(v).strip() in ("", "NA", "N/A", "na", "n/a") for v in row_dict.values())
IsEmptyRow(hdrs, row) == \A i \in 1..RowDictLen(hdrs, row) : IsPlaceholder(row[i])

EmptyRowError(sheet, row_idx) ==
    [sheet |-> sheet, row |-> row_idx, column |-> ENTIRE_ROW, code |-> "Empty Row",
     message |-> "Row is completely empty", value_entered |-> <<>>, suggestions |-> <<>>]

\* "for col in required_columns": val in (None, "", "NA", "N/A")
RECURSIVE RequiredErrorsFrom(_, _, _, _, _, _)
RequiredErrorsFrom(sheet, row_idx, hdrs, row, req, i) ==
    IF i > Len(req) THEN <<>>
    ELSE (IF InNoneEmptyNA(RowGet(hdrs, row, req[i]))
          THEN <<JsonError(sheet, row_idx, req[i], "REQUIRED_FIELD_EMPTY",
                           "Required field '{col}' is empty", <<>>, <<>>)>>
          ELSE <<>>)
         \o RequiredErrorsFrom(sheet, row_idx, hdrs, row, req, i + 1)

\* str(val_entered) if val_entered is not None else ""
ValueEntered(v) == IF v.t = "none" THEN <<>> ELSE Str(v)

\* the err_object built for each error of validate_datatypes
RECURSIVE TypeJsonFrom(_, _, _, _, _, _)
TypeJsonFrom(sheet, row_idx, hdrs, row, errs, i) ==
    IF i > Len(errs) THEN <<>>
    ELSE <<JsonError(sheet, row_idx, errs[i].column, errs[i].code, errs[i].message,
                     ValueEntered(RowGet(hdrs, row, errs[i].column)), errs[i].suggestions)>>
         \o TypeJsonFrom(sheet, row_idx, hdrs, row, errs, i + 1)

\* a faulty variant: only None is normalised, "NA" and "N/A" keep their text
RowSignatureRaw(hdrs, row) ==
    [i \in 1..RowDictLen(hdrs, row) |-> IF row[i].t = "none" THEN <<>> ELSE Str(row[i])]

\* row_values = tuple(str(v) if v not in (None, "", "NA", "N/A") else "" ...)
RowSignature(hdrs, row) ==
    [i \in 1..RowDictLen(hdrs, row) |-> IF InNoneEmptyNA(row[i]) THEN <<>> ELSE Str(row[i])]

ROW_DATA == <<"R", "o", "w", " ", "D", "a", "t", "a">>

\* "if row_values and row_values in seen_rows"
DuplicateRowErrors(sheet, row_idx, row_values, seenR) ==
    IF row_values # <<>> /\ row_values \in seenR
    THEN <<JsonError(sheet, row_idx, ENTIRE_ROW, "DUPLICATE_ROW",
                     "This row is a duplicate of a previous row", ROW_DATA, <<>>)>>
    ELSE <<>>

\* "if val and val not in (None, "", "NA", "N/A")", of the primary key and the
\* unique columns
KeyApplies(val) == Truthy(val) /\ ~InNoneEmptyNA(val)

\* the primary-key block: pk is <<column>> or <<>>
PrimaryKeyErrors(sheet, row_idx, hdrs, row, pk, seenP) ==
    IF pk # <<>> /\ KeyApplies(RowGet(hdrs, row, pk[1]))
       /\ Strip(Str(RowGet(hdrs, row, pk[1]))) \in seenP
    THEN <<JsonError(sheet, row_idx, pk[1], "DUPLICATE_PRIMARY_KEY",
                     "{primary_key}: Duplicate ID ({pk_val})",
                     Str(RowGet(hdrs, row, pk[1])), <<>>)>>
    ELSE <<>>
SeenPrimaryAfter(hdrs, row, pk, seenP) ==
    IF pk # <<>> /\ KeyApplies(RowGet(hdrs, row, pk[1]))
    THEN seenP \cup {Strip(Str(RowGet(hdrs, row, pk[1])))}
    ELSE seenP

\* "for col in unique_columns": [errs, seen]
RECURSIVE UniqueFold(_, _, _, _, _, _, _)
UniqueFold(sheet, row_idx, hdrs, row, ucols, i, seenU) ==
    IF i > Len(ucols) THEN [errs |-> <<>>, seen |-> seenU]
    ELSE LET col == ucols[i]
             val == RowGet(hdrs, row, col)
             val_str == Strip(Str(val))
             here == IF KeyApplies(val) /\ val_str \in seenU[col]
                     THEN <<JsonError(sheet, row_idx, col, "DUPLICATE_UNIQUE",
                                      "{col}: Duplicate value ({val})", Str(val), <<>>)>>
                     ELSE <<>>
             seen2 == IF KeyApplies(val)
                      THEN [seenU EXCEPT ![col] = @ \cup {val_str}]
                      ELSE seenU
             rest == UniqueFold(sheet, row_idx, hdrs, row, ucols, i + 1, seen2)
         IN  [errs |-> here \o rest.errs, seen |-> rest.seen]

\* what a row leaves behind, given the outcome dt of validate_datatypes, the
\* required-column errors req, the duplicate-row errors dup, the primary key pk
\* with its errors pke and the unique-column fold uq
RowResult(sheet, row_idx, hdrs, row, dt, req, dup, pk, pke, uq, cache, sizes, seenR, seenU, seenP) ==
    IF IsEmptyRow(hdrs, row)
    THEN [errors |-> <<EmptyRowError(sheet, row_idx)>>, short |-> 1,
          seen_rows |-> seenR, seen_unique |-> seenU, seen_primary |-> seenP,
          cache |-> cache, sizes |-> sizes, raised |-> FALSE, looks |-> <<>>]
    ELSE IF dt.raised
    THEN [errors |-> req, short |-> Len(req),
          seen_rows |-> seenR, seen_unique |-> seenU, seen_primary |-> seenP,
          cache |-> dt.cache, sizes |-> dt.sizes, raised |-> TRUE, looks |-> dt.looks]
    ELSE [errors |-> req \o TypeJsonFrom(sheet, row_idx, hdrs, row, dt.errs, 1) \o dup
                     \o pke \o uq.errs,
          short |-> Len(req) + Len(dt.errs) + Len(dup) + Len(pke) + Len(uq.errs),
          seen_rows |-> seenR \cup {RowSignature(hdrs, row)},
          seen_unique |-> uq.seen,
          seen_primary |-> SeenPrimaryAfter(hdrs, row, pk, seenP),
          cache |-> dt.cache, sizes |-> dt.sizes, raised |-> FALSE, looks |-> dt.looks]

\* the body of "for row_idx, row in enumerate(all_rows, start=2)" after the
\* timeout check, up to "Write row": the row's json errors, len(short_errors),
\* the duplicate trackers and the cache afterwards, and whether an exception
\* left the body
RowBody(sheet, row_idx, hdrs, row, fields, skip, cache, sizes, st, db_ok, order, year_now, seenR, seenU, seenP) ==
    RowResult(sheet, row_idx, hdrs, row,
              validate_datatypes(hdrs, row, build_field_map(fields, hdrs), skip, cache,
                                 sizes, st, db_ok, order, year_now),
              RequiredErrorsFrom(sheet, row_idx, hdrs, row, required_columns(fields, hdrs), 1),
              DuplicateRowErrors(sheet, row_idx, RowSignature(hdrs, row), seenR),
              get_primary_key(fields, hdrs),
              PrimaryKeyErrors(sheet, row_idx, hdrs, row, get_primary_key(fields, hdrs), seenP),
              UniqueFold(sheet, row_idx, hdrs, row, get_unique_columns(fields, hdrs), 1, seenU),
              cache, sizes, seenR, seenU, seenP)

\* ------------------------------------------------------------ header validation
\* headers = [str(h).strip() for h in header_row if h]
RECURSIVE HeadersOf(_)
HeadersOf(header_row) ==
    IF header_row = <<>> THEN <<>>
    ELSE (IF Truthy(Head(header_row)) THEN <<Strip(Str(Head(header_row)))>> ELSE <<>>)
         \o HeadersOf(Tail(header_row))

SeqToSet(seq) == {seq[i] : i \in 1..Len(seq)}

\* the checks between "Read headers" and "Create output sheet": the structural
\* code the sheet fails with, or "ok"; a sheet without a first row has header_row = <<>>
HeaderCheck(header_row) ==
    IF header_row = <<>> THEN "NO_HEADER"
    ELSE IF HeadersOf(header_row) = <<>> THEN "EMPTY_HEADERS"
    ELSE IF \E i \in 1..Len(header_row) :
                header_row[i].t = "none" \/ Strip(Str(header_row[i])) = <<>>
    THEN "EMPTY_HEADERS"
    ELSE IF Len(HeadersOf(header_row)) # Cardinality(SeqToSet(HeadersOf(header_row)))
    THEN "DUPLICATE_HEADERS"
    ELSE "ok"

\* sheet_map = {s.lower().replace(" ", ""): s for s in wb_input.sheetnames}
SheetKey(name) == RemoveSpaces(Lower(name))
\* the worksheet sheet_map gives for a DocType (the last sheet of that key), 0 if none
SheetFor(book, doctype) ==
    IF \E i \in 1..Len(book) : SheetKey(book[i].name) = SheetKey(doctype)
    THEN CHOOSE i \in 1..Len(book) :
            /\ SheetKey(book[i].name) = SheetKey(doctype)
            /\ \A j \in (i + 1)..Len(book) : SheetKey(book[j].name) # SheetKey(doctype)
    ELSE 0

\* a faulty variant: any row counts, blank or not
HasValidRowsAny(rows) == rows # <<>>

\* valid_rows: rows with a cell that is not None and not blank
HasValidRows(rows) ==
    \E i \in 1..Len(rows) : \E j \in 1..Len(rows[i]) :
        rows[i][j].t # "none" /\ Strip(Str(rows[i][j])) # <<>>

\* ------------------------------------------------------------ the batch report
NewStats(book) ==
    [total_sheets |-> Len(book), validated_sheets |-> 0, total_errors |-> 0,
     total_rows |-> 0, sheet_results |-> <<>>, all_json_errors |-> <<>>]

\* a faulty variant: every returned result counts as a validated sheet
AddResultCountsAll(stats, sheet_result) ==
    [stats EXCEPT
        !.sheet_results = Append(@, sheet_result),
        !.all_json_errors = @ \o sheet_result.json_errors,
        !.validated_sheets = @ + 1,
        !.total_errors = @ + sheet_result.error_count,
        !.total_rows = @ + sheet_result.total_rows]

\* the try branch after process_sheet_with_validation returned sheet_result
AddResult(stats, sheet_result) ==
    [stats EXCEPT
        !.sheet_results = Append(@, sheet_result),
        !.all_json_errors = @ \o sheet_result.json_errors,
        !.validated_sheets = IF sheet_result.success THEN @ + 1 ELSE @,
        !.total_errors = @ + sheet_result.error_count,
        !.total_rows = @ + sheet_result.total_rows]

\* the "Check DocType" branch: the result and its errors are listed, the
\* counters are not touched
AddMissingDoctype(stats, sheet_result) ==
    [stats EXCEPT
        !.sheet_results = Append(@, sheet_result),
        !.all_json_errors = @ \o sheet_result.json_errors]

\* a faulty variant: the result of a timed-out sheet is not listed
AddTimedOutDropped(stats, sheet_result) == stats

\* "except ValidationTimeout": the error sheet's result is listed, nothing else
AddTimedOut(stats, sheet_result) ==
    [stats EXCEPT !.sheet_results = Append(@, sheet_result)]

\* a faulty variant: error_count counts the rows that have errors
CompletedResultRowsInError(doctype, errors, n_rows) ==
    [sheet_name |-> doctype, success |-> TRUE, error |-> "",
     error_count |-> Cardinality({errors[i].row : i \in 1..Len(errors)}),
     total_rows |-> n_rows, json_errors |-> errors]

\* the dictionary process_sheet_with_validation returns when the rows are done
CompletedResult(doctype, errors, n_rows) ==
    [sheet_name |-> doctype, success |-> TRUE, error |-> "",
     error_count |-> Len(errors), total_rows |-> n_rows, json_errors |-> errors]

\* the dictionary handed to safe_response
Report(stats) ==
    [structure_valid |-> stats.total_errors = 0,
     total_sheets |-> stats.total_sheets,
     validated_sheets |-> stats.validated_sheets,
     total_errors |-> stats.total_errors,
     total_rows |-> stats.total_rows,
     errors |-> stats.all_json_errors,
     sheet_results |-> stats.sheet_results]

NoReport ==
    [structure_valid |-> FALSE, total_sheets |-> 0, validated_sheets |-> 0,
     total_errors |-> 0, total_rows |-> 0, errors |-> <<>>, sheet_results |-> <<>>]

\* ------------------------------------------------------------ sheet start
DoctypeName == wb[sheet_idx].name
Fields == MetaFields(DoctypeName)
AllRows == wb[sheet_input].rows
RowIdx == row_i + FIRST_ROW_IDX

\* the message of an EMPTY_HEADERS / header failure
HeaderFailMessage(header_row) ==
    IF header_row = <<>> THEN "Header row missing"
    ELSE IF HeadersOf(header_row) = <<>> THEN "The header row is empty or the sheet is blank."
    ELSE IF HeaderCheck(header_row) = "EMPTY_HEADERS"
    THEN "The header row contains blank cells between columns."
    ELSE "The header row contains duplicate column names."

\* process_sheet_with_validation up to the row loop: the error sheet it returns
\* early, or [ok |-> TRUE] when the rows are to be processed
SheetStart(book, doctype, meta_ok) ==
    LET si == SheetFor(book, doctype)
        fail(code, msg) == [ok |-> FALSE, prefetched |-> FALSE,
                            result |-> create_error_sheet(doctype, code, msg)]
    IN  IF si = 0 THEN fail("SHEET_NOT_FOUND", "Worksheet '{doctype}' not found.")
        ELSE IF HeaderCheck(book[si].header_row) # "ok"
        THEN fail(HeaderCheck(book[si].header_row), HeaderFailMessage(book[si].header_row))
        ELSE IF ~meta_ok THEN fail("DOCTYPE_ERROR", "Failed to load DocType metadata")
        ELSE IF ~HasValidRows(book[si].rows)
        THEN [fail("NO_DATA_ROWS", "The file contains no data rows.")
                EXCEPT !.prefetched = TRUE]
        ELSE [ok |-> TRUE, prefetched |-> TRUE,
              result |-> create_error_sheet(doctype, "", "")]

\* a faulty variant: the clock is read at every second checkpoint only
AtCheckpointSparse(row_idx) == row_idx % (2 * CHECK_EVERY) = 0

\* sheet_timeout: "if row_idx % 100 == 0" and "elapsed > SHEET_TIMEOUT"
AtCheckpoint(row_idx) == row_idx % CHECK_EVERY = 0
SheetTimeoutAt(row_idx, clock, started) ==
    AtCheckpoint(row_idx) /\ clock - started > SHEET_TIMEOUT
\* a faulty variant: the overall time is never found exceeded
BatchTimeoutNever(clock, started) == FALSE
\* "if elapsed > VALIDATION_TIMEOUT: break"
BatchTimeoutAt(clock, started) == clock - started > VALIDATION_TIMEOUT

InLoop == pc = "sheets" /\ sheet_idx <= Len(wb)

\* the assignments to entries of _link_cache counted per DocType, for the properties
CountWrites(writes, dts) ==
    [dt \in DOMAIN writes \cup dts |->
        (IF dt \in DOMAIN writes THEN writes[dt] ELSE 0) + (IF dt \in dts THEN 1 ELSE 0)]

\* a failure met while the loop is at the current sheet, noted for the properties
Fault(kind) == [sheet |-> sheet_idx, kind |-> kind]
\* the failures of the sheet's start: safe_get_meta returned an error, a
\* backing-store call of the prefetch raised
SheetStartFaults(s, outcome) ==
    (IF s.result.error = "DOCTYPE_ERROR" THEN {Fault("meta")} ELSE {})
    \cup (IF s.prefetched /\ ~skip_links /\ outcome # "ok" /\ LinkDoctypes(Fields) # {}
          THEN {Fault("prefetch")} ELSE {})

\* ------------------------------------------------------------ actions
StartRun(skip) ==
    /\ pc \in {"idle", "done"}
    /\ run < MaxRuns
    /\ run' = run + 1
    /\ pc' = "sheets"
    /\ skip_links' = skip
    /\ now' = 0
    /\ start_time' = 0
    /\ sheet_idx' = 1
    /\ overall_stats' = NewStats(wb)
    /\ response' = NoReport
    /\ hist' = [stable |-> TRUE,
                prev_stable |-> pc = "done" /\ hist.stable,
                prev_errors |-> IF pc = "done" /\ hist.stable THEN response.errors ELSE <<>>,
                prev_skip |-> skip_links,
                looks |-> {},
                faults |-> {},
                late |-> 0,
                writes |-> EmptyCache,
                started |-> <<>>]
    /\ UNCHANGED <<race, wb, today_year, set_order, store, store_changes, link_cache,
                   link_cache_sizes, sheet_start, sheet_input, headers, row_i, json_errors,
                   seen_rows, seen_unique, seen_primary, ws_output>>

\* one turn of "for sheet_idx, sheet_name in enumerate(wb_input.sheetnames, 1)"
\* up to the row loop; meta_ok is safe_get_meta succeeding, outcome the
\* backing store's answer to the prefetch
BeginSheet(meta_ok, outcome) ==
    /\ InLoop
    /\ ~BatchTimeoutAt(now, start_time)
    /\ sheet_start' = now
    /\ IF ~DocTypeExists(store, DoctypeName)
       THEN /\ overall_stats' = AddMissingDoctype(overall_stats,
                    create_error_sheet(DoctypeName, "DOCTYPE_NOT_FOUND",
                                       "DocType '{sheet_name}' not found in Frappe"))
            /\ sheet_idx' = sheet_idx + 1
            /\ hist' = [hist EXCEPT !.started = Append(@, DoctypeName)]
            /\ UNCHANGED <<pc, link_cache, link_cache_sizes, sheet_input, headers, row_i,
                           json_errors, seen_rows, seen_unique, seen_primary, ws_output>>
       ELSE LET s == SheetStart(wb, DoctypeName, meta_ok)
                pf == prefetch_link_caches(link_cache, link_cache_sizes, store, Fields, outcome)
                si == SheetFor(wb, DoctypeName)
                hdrs == HeadersOf(wb[si].header_row)
            IN  /\ link_cache' = IF s.prefetched /\ ~skip_links THEN pf.cache ELSE link_cache
                /\ link_cache_sizes' =
                        IF s.prefetched /\ ~skip_links THEN pf.sizes ELSE link_cache_sizes
                /\ hist' = [hist EXCEPT
                             !.stable = @ /\ meta_ok /\ outcome = "ok",
                             !.faults = @ \cup SheetStartFaults(s, outcome),
                             !.late = 0,
                             !.started = Append(@, DoctypeName),
                             !.writes = IF s.prefetched /\ ~skip_links
                                        THEN CountWrites(@, PrefetchWrites(store, Fields, outcome))
                                        ELSE @]
                /\ IF s.ok
                   THEN /\ pc' = "rows"
                        /\ sheet_input' = si
                        /\ headers' = hdrs
                        /\ row_i' = 0
                        /\ json_errors' = <<>>
                        /\ seen_rows' = {}
                        /\ seen_unique' = [c \in SeqToSet(get_unique_columns(Fields, hdrs)) |-> {}]
                        /\ seen_primary' = {}
                        /\ ws_output' = <<>>
                        /\ UNCHANGED <<overall_stats, sheet_idx>>
                   ELSE /\ overall_stats' = AddResult(overall_stats, s.result)
                        /\ sheet_idx' = sheet_idx + 1
                        /\ UNCHANGED <<pc, sheet_input, headers, row_i, json_errors,
                                       seen_rows, seen_unique, seen_primary, ws_output>>
    /\ UNCHANGED <<race, wb, today_year, set_order, store, store_changes, now, run, skip_links,
                   start_time, response>>

\* the row loop's bookkeeping for a row whose body gave b: an exception ends
\* the sheet with PROCESSING_ERROR, else the row is written and counted
RowDone(b) ==
    /\ link_cache' = b.cache
    /\ link_cache_sizes' = b.sizes
    /\ hist' = [hist EXCEPT
                 !.stable = @ /\ ~b.raised,
                 !.faults = @ \cup (IF b.raised THEN {Fault("row")} ELSE {}),
                 !.late = IF ~b.raised /\ now - sheet_start > SHEET_TIMEOUT THEN @ + 1 ELSE @,
                 !.writes = CountWrites(@, DOMAIN b.cache \ DOMAIN link_cache),
                 !.looks = @ \cup {[doctype |-> b.looks[i].doctype,
                                    value |-> b.looks[i].value,
                                    resolved |-> b.looks[i].resolved] :
                                   i \in {j \in 1..Len(b.looks) : b.looks[j].materialized}}]
    /\ IF b.raised
       THEN /\ overall_stats' = AddResult(overall_stats,
                     create_error_sheet(DoctypeName, "PROCESSING_ERROR",
                                        "Unexpected error: {e}"))
            /\ pc' = "sheets"
            /\ sheet_idx' = sheet_idx + 1
            /\ UNCHANGED <<row_i, json_errors, seen_rows, seen_unique, seen_primary,
                           ws_output>>
       ELSE /\ row_i' = row_i + 1
            /\ json_errors' = json_errors \o b.errors
            /\ seen_rows' = b.seen_rows
            /\ seen_unique' = b.seen_unique
            /\ seen_primary' = b.seen_primary
            /\ ws_output' = Append(ws_output,
                     [row |-> RowIdx, has_error |-> b.short > 0,
                      error_count |-> b.short])
            /\ UNCHANGED <<overall_stats, pc, sheet_idx>>

\* one turn of the row loop that passes the timeout check; db_ok = FALSE is the
\* backing store raising during the row
RowStep(db_ok) ==
    /\ pc = "rows"
    /\ row_i < Len(AllRows)
    /\ ~SheetTimeoutAt(RowIdx, now, sheet_start)
    /\ RowDone(RowBody(DoctypeName, RowIdx, headers, AllRows[row_i + 1], Fields, skip_links,
                       link_cache, link_cache_sizes, store, db_ok, set_order, today_year,
                       seen_rows, seen_unique, seen_primary))
    /\ UNCHANGED <<race, wb, today_year, set_order, store, store_changes, now, run, skip_links,
                   start_time, sheet_start, sheet_input, headers, response>>

\* the timeout check raising ValidationTimeout, caught by the batch loop
SheetTimedOut ==
    /\ pc = "rows"
    /\ row_i < Len(AllRows)
    /\ SheetTimeoutAt(RowIdx, now, sheet_start)
    /\ overall_stats' = AddTimedOut(overall_stats,
            create_error_sheet(DoctypeName, "TIMEOUT_ERROR",
                               "Sheet processing exceeded {SHEET_TIMEOUT}s timeout"))
    /\ pc' = "sheets"
    /\ sheet_idx' = sheet_idx + 1
    /\ hist' = [hist EXCEPT !.stable = FALSE, !.faults = @ \cup {Fault("timeout")}]
    /\ UNCHANGED <<race, wb, today_year, set_order, store, store_changes, link_cache,
                   link_cache_sizes, now, run, skip_links, start_time, sheet_start,
                   sheet_input, headers, row_i, json_errors, seen_rows, seen_unique,
                   seen_primary, ws_output, response>>

\* the row loop ran to its end: the sheet's result is returned and counted
SheetCompleted ==
    /\ pc = "rows"
    /\ row_i = Len(AllRows)
    /\ overall_stats' = AddResult(overall_stats,
            CompletedResult(DoctypeName, json_errors, Len(AllRows)))
    /\ pc' = "sheets"
    /\ sheet_idx' = sheet_idx + 1
    /\ UNCHANGED <<race, wb, today_year, set_order, store, store_changes, link_cache,
                   link_cache_sizes, now, run, skip_links, start_time, sheet_start,
                   sheet_input, headers, row_i, json_errors, seen_rows, seen_unique,
                   seen_primary, ws_output, response, hist>>

\* the overall timeout: "break", then the report of what was done
BatchTimeout ==
    /\ InLoop
    /\ BatchTimeoutAt(now, start_time)
    /\ response' = Report(overall_stats)
    /\ pc' = "done"
    /\ hist' = [hist EXCEPT !.stable = FALSE]
    /\ UNCHANGED <<race, wb, today_year, set_order, store, store_changes, link_cache,
                   link_cache_sizes, now, run, skip_links, start_time, sheet_idx,
                   sheet_start, sheet_input, headers, row_i, json_errors, seen_rows,
                   seen_unique, seen_primary, ws_output, overall_stats>>

\* the loop over the sheets ended: the report is returned
FinishRun ==
    /\ pc = "sheets"
    /\ sheet_idx > Len(wb)
    /\ response' = Report(overall_stats)
    /\ pc' = "done"
    /\ UNCHANGED <<race, wb, today_year, set_order, store, store_changes, link_cache,
                   link_cache_sizes, now, run, skip_links, start_time, sheet_idx,
                   sheet_start, sheet_input, headers, row_i, json_errors, seen_rows,
                   seen_unique, seen_primary, ws_output, overall_stats, hist>>

\* time passes; the program reads the clock at the top of the sheet loop and at
\* the checkpoints of the row loop only, so time passing elsewhere is time
\* passing before the next of these
ClockIsRead == InLoop \/ (pc = "rows" /\ row_i < Len(AllRows) /\ AtCheckpoint(RowIdx))
Tick ==
    /\ now < MaxTicks * TickStep
    /\ ClockIsRead
    /\ now' = now + TickStep
    /\ UNCHANGED <<race, wb, today_year, set_order, store, store_changes, link_cache,
                   link_cache_sizes, run, pc, skip_links, start_time, sheet_idx,
                   sheet_start, sheet_input, headers, row_i, json_errors, seen_rows,
                   seen_unique, seen_primary, ws_output, overall_stats, response, hist>>

\* time passes while the rows of a sheet are validated, at any row
Elapse ==
    /\ pc = "rows"
    /\ now < MaxTicks * TickStep
    /\ now' = now + TickStep
    /\ UNCHANGED <<race, wb, today_year, set_order, store, store_changes, link_cache,
                   link_cache_sizes, run, pc, skip_links, start_time, sheet_idx,
                   sheet_start, sheet_input, headers, row_i, json_errors, seen_rows,
                   seen_unique, seen_primary, ws_output, overall_stats, response, hist>>

\* other users change the backing store (records created or deleted)
StoreChange(new_store) ==
    /\ pc # "idle"
    /\ store_changes < MaxStoreChanges
    /\ new_store # store
    /\ store' = new_store
    /\ store_changes' = store_changes + 1
    /\ hist' = [hist EXCEPT !.stable = FALSE, !.looks = {}]
    /\ UNCHANGED <<race, wb, today_year, set_order, link_cache, link_cache_sizes, now, run, pc,
                   skip_links, start_time, sheet_idx, sheet_start, sheet_input, headers,
                   row_i, json_errors, seen_rows, seen_unique, seen_primary, ws_output,
                   overall_stats, response>>

\* ------------------------------------------------------------ concurrent runs
\* Runs of one process that reach the prefetch of the same Link target at the
\* same time; each statement of the prefetch loop body is a step of its own.
\* at: the statement a run is at; count, names: its local variables; results:
\* the lookups made so far
NoRace == [at |-> <<>>, count |-> <<>>, names |-> <<>>, results |-> {}]
Racing == race # NoRace
\* the Link field of the sheet both runs validate
RaceField == MetaFields(EVENT)[2]
RaceTarget == RaceField.options

\* a faulty variant: the identifier set is never fetched
RaceAfterSizeSkip(count) == "look"

\* "if count > LINK_CACHE_LIMIT: continue"
RaceAfterSize(count) == IF count > LINK_CACHE_LIMIT THEN "look" ELSE "list"

RaceFrame ==
    UNCHANGED <<wb, today_year, set_order, store, store_changes, now, run, pc, skip_links,
                start_time, sheet_idx, sheet_start, sheet_input, headers, row_i,
                json_errors, seen_rows, seen_unique, seen_primary, ws_output,
                overall_stats, response, hist>>

\* the runs are started
RaceStart ==
    /\ ~Racing
    /\ pc = "idle"
    /\ race' = [at |-> [w \in 1..MaxRuns |-> "count"],
                count |-> [w \in 1..MaxRuns |-> 0],
                names |-> [w \in 1..MaxRuns |-> StoreRecs({}, 0)],
                results |-> {}]
    /\ UNCHANGED <<link_cache, link_cache_sizes>>
    /\ RaceFrame

\* count = frappe.db.count(linked_dt)
RaceCount(w) ==
    /\ Racing
    /\ race.at[w] = "count"
    /\ race' = [race EXCEPT !.at[w] = "size", !.count[w] = DbCount(store, RaceTarget)]
    /\ UNCHANGED <<link_cache, link_cache_sizes>>
    /\ RaceFrame

\* _link_cache_sizes[linked_dt] = count, and the test of the limit
RaceSize(w) ==
    /\ Racing
    /\ race.at[w] = "size"
    /\ link_cache_sizes' = (RaceTarget :> race.count[w]) @@ link_cache_sizes
    /\ race' = [race EXCEPT !.at[w] = RaceAfterSize(race.count[w])]
    /\ UNCHANGED link_cache
    /\ RaceFrame

\* set(frappe.get_all(linked_dt, pluck="name")), not yet assigned
RaceList(w) ==
    /\ Racing
    /\ race.at[w] = "list"
    /\ race' = [race EXCEPT !.at[w] = "assign", !.names[w] = DbGetAll(store, RaceTarget)]
    /\ UNCHANGED <<link_cache, link_cache_sizes>>
    /\ RaceFrame

\* _link_cache[linked_dt] = ...
RaceAssign(w) ==
    /\ Racing
    /\ race.at[w] = "assign"
    /\ link_cache' = (RaceTarget :> race.names[w]) @@ link_cache
    /\ race' = [race EXCEPT !.at[w] = "look"]
    /\ UNCHANGED link_cache_sizes
    /\ RaceFrame

\* a row of the run resolves the reference value: validate_link_field
RaceLook(w, value) ==
    /\ Racing
    /\ race.at[w] = "look"
    /\ LET r == validate_link_field(RaceField, value, RaceField.label, FALSE, link_cache,
                                    link_cache_sizes, store, TRUE, set_order)
       IN  /\ link_cache' = r.cache
           /\ link_cache_sizes' = r.sizes
           /\ race' = [race EXCEPT !.results = @ \cup {[value |-> value, errs |-> r.errs]}]
    /\ RaceFrame

\* ------------------------------------------------------------ inputs: backing stores
India == <<"I", "n", "d", "i", "a">>
Indiana == <<"I", "n", "d", "i", "a", "n", "a">>
Indonesia == <<"I", "n", "d", "o", "n", "e", "s", "i", "a">>
Indore == <<"I", "n", "d", "o", "r", "e">>
Narnia == <<"N", "a", "r", "n", "i", "a">>
AllNames == <<India, Indiana, Indonesia, Indore, Narnia, <<"2", "0", "2", "4">>>>
Reverse(seq) == [i \in 1..Len(seq) |-> seq[Len(seq) + 1 - i]]
SetOrders == {AllNames, Reverse(AllNames)}

SheetDoctypes == {STUDENT, EVENT, PROGRAM, LEDGER, COURSE, VENUE}
StoreWith(country) ==
    [doctypes |-> SheetDoctypes,
     recs |-> (COUNTRY :> country) @@ (ACADEMIC_YEAR :> StoreRecs({<<"2", "0", "2", "4">>}, 0))]
\* a small Country table, the same with Narnia created, and one of 6000 records
SmallStore == StoreWith(StoreRecs({India, Indiana, Indonesia, Indore}, 0))
GrownStore == StoreWith(StoreRecs({India, Indiana, Indonesia, Indore, Narnia}, 0))
LargeStore == StoreWith(StoreRecs({India, Indiana, Indonesia, Indore}, 5996))
\* a Country table of exactly LINK_CACHE_LIMIT records
FullStore == StoreWith(StoreRecs({India, Indiana, Indonesia, Indore}, LINK_CACHE_LIMIT - 4))
StorePool == {SmallStore, GrownStore, LargeStore, FullStore}

\* ------------------------------------------------------------ inputs: workbooks
Sheet(name, header_row, rows) == [name |-> name, header_row |-> header_row, rows |-> rows]

\* all sequences over S of length lo..hi
SeqsOf(S, lo, hi) == UNION {[1..k -> S] : k \in lo..hi}

NameCells == {PyNone, PyStr(NA), PyStr(<<"a">>), PyStr(<<"a", " ">>), PyStr(<<"A">>), PyStr(<<" ">>)}
EmailCells == {PyNone, PyStr(<<>>), PyStr(<<" ">>), PyStr(na), PyStr(N_A), PyStr(<<"x">>),
               PyInt(5), PyStr(<<"5">>)}
YearCells == {PyNone, PyStr(<<"a", "b", "c">>), PyInt(1899), PyInt(1900), PyStr(<<"2", "0", "2", "4">>), PyInt(2026),
              PyInt(2027), PyFloat(20245), PyDate(2024, 1, 5), PyStr(<<"2", "0", "2", "4", "-", "0", "1", "-", "0", "5">>),
              PyStr(<<"2", "0", "2", "4", "-", "0", "2", "-", "3", "0">>), PyBool(TRUE)}
CountryCells == {PyNone, PyStr(India), PyStr(<<"i", "n", "d", "i", "a">>), PyStr(<<"I", "n", "d">>), PyStr(Narnia)}
AcademicYearCells == {PyNone, PyStr(<<"2", "0", "2", "4">>), PyStr(<<"2", "0", "2", "4", "-", "2", "5">>), PyInt(1800), PyInt(2023)}
NotesCells == {PyNone, PyStr(<<"n">>)}
SeatsCells == {PyNone, PyInt(5), PyInt(0), PyBool(TRUE), PyFloat(50), PyFloat(55), PyStr(<<"5">>),
               PyStr(<<"5", ".", "0">>), PyStr(<<" ", "-", "5", ".", " ">>), PyStr(<<"5", ".", "5">>), PyStr(<<"a", "b", "c">>), PyStr(<<"t", "r", "u", "e">>),
               PyStr(<<"i", "n", "f">>), PyDate(2024, 1, 5)}
AmountCells == {PyNone, PyStr(<<"a", "b", "c">>), PyStr(<<"5", ".", "5">>), PyFloat(55)}

StudentHeader == <<PyStr(hName), PyStr(hEmail)>>
EventHeader == <<PyStr(hYear), PyStr(hCountry)>>
ProgramHeader == <<PyStr(hAcademicYear), PyStr(hNotes)>>
LedgerHeader == <<PyStr(hAmount), PyStr(hYear)>>
CourseHeader == <<PyStr(hSeats), PyStr(hMentor)>>

StudentRows == {<<a, b>> : a \in NameCells, b \in EmailCells}
EventRows == {<<a, b>> : a \in YearCells, b \in CountryCells}
ProgramRows == {<<a, b>> : a \in AcademicYearCells, b \in NotesCells}
LedgerRows == {<<a, b>> : a \in AmountCells, b \in {PyInt(2024), PyStr(<<"a", "b", "c">>)}}
CourseRows == {<<a, b>> : a \in SeatsCells, b \in NotesCells}

\* rows for runs of equal signatures: "NA" and None sign alike, 5 and "5" too
TwinRows == {<<PyStr(<<"a">>), PyInt(5)>>, <<PyStr(<<"a">>), PyStr(<<"5">>)>>,
             <<PyStr(NA), PyStr(<<"x">>)>>, <<PyNone, PyStr(<<"x">>)>>}

\* one-sheet workbooks whose rows range over the cell pools
RowBooks ==
    {<<Sheet(STUDENT, StudentHeader, r)>> : r \in SeqsOf(StudentRows, 1, MaxRows)}
    \cup {<<Sheet(STUDENT, StudentHeader, r)>> : r \in SeqsOf(TwinRows, MaxRows + 1, MaxRows + 1)}
    \cup {<<Sheet(EVENT, EventHeader, r)>> : r \in SeqsOf(EventRows, 1, MaxTypeRows)}
    \cup {<<Sheet(PROGRAM, ProgramHeader, r)>> : r \in SeqsOf(ProgramRows, 1, MaxTypeRows)}
    \cup {<<Sheet(LEDGER, LedgerHeader, r)>> : r \in SeqsOf(LedgerRows, 1, MaxTypeRows)}
    \cup {<<Sheet(COURSE, CourseHeader, r)>> : r \in SeqsOf(CourseRows, 1, MaxTypeRows)}

\* header rows: every pair of header cells, and the sheet without a first row
HeaderCells == {PyNone, PyStr(<<" ">>), PyStr(hName), PyStr(<<"N", "a", "m", "e", " ">>), PyStr(hEmail), PyInt(0)}
HeaderBooks ==
    {<<Sheet(STUDENT, h, <<<<PyStr(<<"a">>), PyStr(<<"x">>)>>>>)>> :
        h \in SeqsOf(HeaderCells, 2, 2) \cup {<<>>}}

\* the rows of a long sheet: a pattern of three rows, so that rows repeat
LongRow(i) ==
    CASE i % 3 = 0 -> <<PyStr(<<"a">>), PyStr(<<"x">>)>>
      [] i % 3 = 1 -> <<PyStr(<<"b">>), PyNone>>
      [] OTHER -> <<PyNone, PyNone>>
LongSheet(n) == Sheet(STUDENT, StudentHeader, [i \in 1..n |-> LongRow(i)])

LinkRows == <<<<PyStr(<<"2", "0", "2", "4">>), PyStr(<<"i", "n", "d", "i", "a">>)>>, <<PyStr(<<"2", "0", "2", "4">>), PyStr(<<"I", "n", "d">>)>>,
              <<PyInt(2024), PyStr(Narnia)>>, <<PyInt(2024), PyStr(<<"I", "n", "d">>)>>>>
LinkSheet == Sheet(EVENT, EventHeader, LinkRows)
ShortStudent == Sheet(STUDENT, StudentHeader, <<<<PyStr(<<"a">>), PyNone>>>>)
ShortCourse == Sheet(COURSE, CourseHeader, <<<<PyStr(<<"a", "b", "c">>), PyStr(<<"n">>)>>>>)
BlankStudent == Sheet(STUDENT, StudentHeader, <<<<PyNone, PyStr(<<" ">>)>>>>)
VenueSheet == Sheet(VENUE, <<PyStr(hName), PyStr(hCountry)>>, <<<<PyStr(<<"H", "a", "l", "l">>), PyStr(<<"I", "n", "d">>)>>>>)
GhostSheet == Sheet(GHOST, StudentHeader, <<<<PyStr(<<"a">>), PyStr(<<"x">>)>>>>)

\* workbooks of the batch runs: long sheets, link sheets, unknown DocTypes,
\* sheets without data
LinkBooks == {<<LinkSheet>>, <<LinkSheet, ShortCourse>>}
LongBooks == {<<LongSheet(LongRows)>>, <<LongSheet(LongRows), ShortCourse>>}
OtherBooks == {<<GhostSheet, ShortStudent>>, <<BlankStudent>>,
               <<Sheet(STUDENT, StudentHeader, <<>>), ShortCourse>>}

CurrentYears == {2024, 2025}

\* ------------------------------------------------------------ specifications

InitProgram ==
    /\ store_changes = 0
    /\ link_cache = EmptyCache
    /\ link_cache_sizes = EmptyCache
    /\ now = 0
    /\ pc = "idle"
    /\ skip_links = FALSE
    /\ start_time = 0
    /\ sheet_idx = 1
    /\ sheet_start = 0
    /\ sheet_input = 1
    /\ headers = <<>>
    /\ row_i = 0
    /\ json_errors = <<>>
    /\ seen_rows = {}
    /\ seen_unique = EmptyCache
    /\ seen_primary = {}
    /\ ws_output = <<>>
    /\ overall_stats = NewStats(<<>>)
    /\ response = NoReport
    /\ race = NoRace
    /\ hist = [stable |-> TRUE, prev_stable |-> FALSE, prev_errors |-> <<>>,
               prev_skip |-> FALSE, looks |-> {}, faults |-> {}, late |-> 0,
               writes |-> EmptyCache, started |-> <<>>]

\* the batch coordinator with its clock: long sheets, sheets of unknown
\* DocTypes, sheets without data, header rows; the schema lookup may fail
Init ==
    /\ InitProgram
    /\ wb \in LongBooks \cup OtherBooks \cup HeaderBooks
    /\ store = SmallStore
    /\ set_order = AllNames
    /\ today_year = 2025
    /\ run = 0

Next ==
    \/ \E skip \in BOOLEAN : StartRun(skip)
    \/ \E meta_ok \in BOOLEAN : BeginSheet(meta_ok, "ok")
    \/ RowStep(TRUE)
    \/ SheetTimedOut
    \/ SheetCompleted
    \/ BatchTimeout
    \/ FinishRun
    \/ Tick

Spec == Init /\ [][Next]_vars

\* link validation against a backing store that changes and whose calls may
\* fail, over several runs of one process
InitLinks ==
    /\ InitProgram
    /\ wb \in LinkBooks
    /\ store \in StorePool
    /\ set_order \in SetOrders
    /\ today_year = 2025
    /\ run = 0

NextLinks ==
    \/ \E skip \in BOOLEAN : StartRun(skip)
    \/ \E outcome \in PrefetchOutcomes : BeginSheet(TRUE, outcome)
    \/ \E db_ok \in BOOLEAN : RowStep(db_ok)
    \/ SheetCompleted
    \/ FinishRun
    \/ \E new_store \in StorePool : StoreChange(new_store)

SpecLinks == InitLinks /\ [][NextLinks]_vars

\* row validation over the cell pools, in a quiet environment: the store does
\* not change, no call fails, no time budget is exceeded; the process has one
\* run left
InitRows ==
    /\ InitProgram
    /\ wb \in RowBooks
    /\ run = MaxRuns - 1
    /\ store = SmallStore
    /\ set_order = AllNames
    /\ today_year \in IF wb[1].name \in {EVENT, LEDGER} THEN CurrentYears ELSE {2025}

NextRows ==
    \/ \E skip \in BOOLEAN : StartRun(skip)
    \/ BeginSheet(TRUE, "ok")
    \/ RowStep(TRUE)
    \/ SheetCompleted
    \/ FinishRun

SpecRows == InitRows /\ [][NextRows]_vars

\* one run in which every call that can fail may fail: the schema lookup, the
\* backing-store calls of the prefetch and of the rows, and the time budgets
FaultBooks == {<<LinkSheet, ShortCourse>>, <<LongSheet(LongRows), ShortCourse>>,
               <<ShortStudent, LinkSheet>>, <<LinkSheet, VenueSheet>>}

InitFaults ==
    /\ InitProgram
    /\ wb \in FaultBooks
    /\ run = MaxRuns - 1
    /\ store = SmallStore
    /\ set_order = AllNames
    /\ today_year = 2025

NextFaults ==
    \/ \E skip \in BOOLEAN : StartRun(skip)
    \/ \E meta_ok \in BOOLEAN, outcome \in PrefetchOutcomes : BeginSheet(meta_ok, outcome)
    \/ \E db_ok \in BOOLEAN : RowStep(db_ok)
    \/ SheetTimedOut
    \/ SheetCompleted
    \/ BatchTimeout
    \/ FinishRun
    \/ Tick

SpecFaults == InitFaults /\ [][NextFaults]_vars

\* runs of one process racing on the population of the cache, the backing
\* store unchanged
InitRace ==
    /\ InitProgram
    /\ wb = <<LinkSheet>>
    /\ store \in StorePool
    /\ set_order \in SetOrders
    /\ today_year = 2025
    /\ run = 0

NextRace ==
    \/ RaceStart
    \/ \E w \in 1..MaxRuns : RaceCount(w)
    \/ \E w \in 1..MaxRuns : RaceSize(w)
    \/ \E w \in 1..MaxRuns : RaceList(w)
    \/ \E w \in 1..MaxRuns : RaceAssign(w)
    \/ \E w \in 1..MaxRuns, value \in CountryCells : RaceLook(w, value)

SpecRace == InitRace /\ [][NextRace]_vars

\* one run on a long sheet while time passes at any row: sheets that end
\* before the first checkpoint, after it, and after the second
ClockBooks == {<<LongSheet(n)>> : n \in {LongRows - 3, LongRows, 2 * LongRows}}

InitClock ==
    /\ InitProgram
    /\ wb \in ClockBooks
    /\ run = MaxRuns - 1
    /\ store = SmallStore
    /\ set_order = AllNames
    /\ today_year = 2025

NextClock ==
    \/ StartRun(FALSE)
    \/ BeginSheet(TRUE, "ok")
    \/ RowStep(TRUE)
    \/ SheetTimedOut
    \/ SheetCompleted
    \/ FinishRun
    \/ Elapse

SpecClock == InitClock /\ [][NextClock]_vars

\* ------------------------------------------------------------ properties
\* a cell that is blank or a placeholder: None, an empty or whitespace-only
\* text, or one of NA, N/A, na, n/a
BlankCell(v) == v.t = "none" \/ (v.t = "str" /\ Strip(v.s) \in {<<>>, NA, N_A, na, n_a})
AllBlank(row) == \A j \in 1..Len(row) : BlankCell(row[j])

\* the structured errors reported for the k-th data row of the current sheet
RowErrors(k) == SelectSeq(json_errors, LAMBDA e : e.row = k + FIRST_ROW_IDX - 1)
HasCode(errs, code) ==
    \E i \in 1..Len(errs) : errs[i].code = get_readable_error_code(code)

\* C1: every processed data row whose cells are all blank or placeholders has
\* exactly one error, EMPTY_ROW on the 'Entire Row' column, and errorCount 1
C1_EmptyRowOnly ==
    \A k \in 1..row_i :
        AllBlank(AllRows[k]) =>
            /\ Len(RowErrors(k)) = 1
            /\ RowErrors(k)[1].code = get_readable_error_code("EMPTY_ROW")
            /\ RowErrors(k)[1].column = ENTIRE_ROW
            /\ ws_output[k].error_count = 1
            /\ ws_output[k].has_error

\* a Student row of "NA" and "na" (the Email column is required) has been processed
C1_Witness ==
    /\ row_i >= 1
    /\ wb[sheet_input].name = STUDENT
    /\ AllRows[1] = <<PyStr(NA), PyStr(na)>>
    /\ Len(RowErrors(1)) = 1

\* the signature of a row with exactly None, "", "NA" and "N/A" mapped to the
\* empty text
ExactSignature(row) ==
    [j \in 1..Len(row) |->
        IF row[j] \in {PyNone, PyStr(<<>>), PyStr(NA), PyStr(N_A)} THEN <<>> ELSE Str(row[j])]
\* the signature with every blank cell (None, empty or whitespace-only text) and
\* NA, N/A mapped to the empty text
BlankSignature(row) ==
    [j \in 1..Len(row) |->
        IF row[j].t = "none" \/ (row[j].t = "str" /\ (Strip(row[j].s) = <<>> \/ row[j].s \in {NA, N_A}))
        THEN <<>> ELSE Str(row[j])]

C3_OneRequiredError ==
    \A k \in 1..row_i :
        (/\ wb[sheet_input].name = STUDENT
         /\ ~BlankCell(AllRows[k][1])
         /\ AllRows[k][2] \in {PyNone, PyStr(<<>>)}
         /\ \A j \in 1..(k - 1) : Strip(Str(AllRows[j][1])) # Strip(Str(AllRows[k][1])))
        => /\ Len(RowErrors(k)) = 1
           /\ RowErrors(k)[1].code = get_readable_error_code("REQUIRED_FIELD_EMPTY")
           /\ RowErrors(k)[1].column = hEmail
           /\ ws_output[k].has_error
           /\ ws_output[k].error_count = 1

\* the result of the sheet the batch loop handled last
LastResult == overall_stats.sheet_results[Len(overall_stats.sheet_results)]
\* every element of the sequence small occurs in the sequence big
AllIn(small, big) ==
    \A i \in 1..Len(small) : \E j \in 1..Len(big) : big[j] = small[i]

\* C4 (as stated): when the sheet handled last ended by exceeding its time
\* budget, its result counts the rows processed before the timeout and holds
\* their errors, and so does the batch's list of errors and the final report
C4_TimeoutKeepsPartial ==
    (/\ pc \in {"sheets", "done"}
     /\ overall_stats.sheet_results # <<>>
     /\ LastResult.error = "TIMEOUT_ERROR")
    => /\ LastResult.total_rows = row_i
       /\ AllIn(json_errors, LastResult.json_errors)
       /\ AllIn(json_errors, overall_stats.all_json_errors)
       /\ pc = "done" => AllIn(json_errors, response.errors)

\* the defects of a header row: no row at all, a blank cell, two cells with the
\* same trimmed label
BlankHeaderCell(h) == h.t = "none" \/ Strip(Str(h)) = <<>>
HeaderDefects(header_row) ==
    (IF header_row = <<>> THEN {"NO_HEADER"} ELSE {})
    \cup (IF \E i \in 1..Len(header_row) : BlankHeaderCell(header_row[i])
          THEN {"EMPTY_HEADERS"} ELSE {})
    \cup (IF \E i, j \in 1..Len(header_row) :
                /\ i < j
                /\ ~BlankHeaderCell(header_row[i])
                /\ Strip(Str(header_row[i])) = Strip(Str(header_row[j]))
          THEN {"DUPLICATE_HEADERS"} ELSE {})

\* C5 (as stated): the result of a sheet (of a known DocType) whose header row
\* has a defect is a failure with the code of a defect it has, one synthetic
\* error (row 0, column 'Sheet'), total_rows 0, and no error of the batch names
\* a row of that sheet; two header cells 'Name' give DUPLICATE_HEADERS
C5_HeaderFailure ==
    \A i \in 1..Len(overall_stats.sheet_results) :
        LET r == overall_stats.sheet_results[i]
            header_row == wb[i].header_row
        IN  (HeaderDefects(header_row) # {} /\ wb[i].name \in store.doctypes)
            => /\ ~r.success
               /\ r.error \in HeaderDefects(header_row)
               /\ r.total_rows = 0
               /\ r.error_count = 1
               /\ Len(r.json_errors) = 1
               /\ r.json_errors[1].row = 0
               /\ r.json_errors[1].column = SHEET_COLUMN
               /\ r.json_errors[1].code = get_readable_error_code(r.error)
               /\ \A j \in 1..Len(overall_stats.all_json_errors) :
                    overall_stats.all_json_errors[j].sheet = wb[i].name
                        => overall_stats.all_json_errors[j].row = 0
               /\ header_row = <<PyStr(hName), PyStr(hName)>> => r.error = "DUPLICATE_HEADERS"

\* C6: when a run ends and the run before it ended too, both with the same
\* skip_links, both without a failing backing-store call or timeout and with no
\* change of the backing store since the earlier run began, the two reports
\* list the same errors in the same order with the same suggestions
C6_SameErrorsTwice ==
    (pc = "done" /\ hist.prev_stable /\ hist.stable /\ hist.prev_skip = skip_links)
        => response.errors = hist.prev_errors

\* a second run with link validation ended on the link sheet, starting from
\* the cache the first run left, and reported link errors with suggestions
C6_Witness ==
    /\ pc = "done"
    /\ run = 2
    /\ hist.prev_stable /\ hist.stable
    /\ ~hist.prev_skip /\ ~skip_links
    /\ wb[1].name = EVENT
    /\ \E i \in 1..Len(response.errors) :
            /\ response.errors[i].code = get_readable_error_code("LINK_NOT_FOUND")
            /\ response.errors[i].suggestions # <<>>

\* C7: in a run without a change of the backing store or a failing call, the
\* lookups made while the target's cache entry existed gave one answer per
\* target and identifier
C7_SameAnswerEveryLookup ==
    hist.stable =>
        \A a, b \in hist.looks :
            (a.doctype = b.doctype /\ a.value = b.value) => a.resolved = b.resolved

\* the four rows of the link sheet are done: "Ind" was looked up twice, with a
\* resolving lookup before and a failed lookup (with suggestions) in between
C7_Witness ==
    /\ pc = "rows"
    /\ hist.stable
    /\ ~skip_links
    /\ wb[sheet_input] = LinkSheet
    /\ row_i = Len(LinkRows)
    /\ COUNTRY \in DOMAIN link_cache
    /\ [doctype |-> COUNTRY, value |-> <<"I", "n", "d">>, resolved |-> FALSE] \in hist.looks
    /\ [doctype |-> COUNTRY, value |-> <<"i", "n", "d", "i", "a">>, resolved |-> TRUE] \in hist.looks

\* the errors a row step has added
NewErrors == SubSeq(json_errors', Len(json_errors) + 1, Len(json_errors'))

\* C8 (as stated): a row of the Event sheet processed while Country has more
\* records than the cache limit, whose Country text is not a record of the
\* backing store (in any letter case), gets a LINK_NOT_FOUND error without
\* suggestions
C8_LargeTypeNoSuggestions ==
    [][(/\ pc = "rows"
        /\ row_i' = row_i + 1
        /\ ~skip_links
        /\ wb[sheet_input].name = EVENT
        /\ DbCount(store, COUNTRY) > LINK_CACHE_LIMIT
        /\ ~BlankCell(AllRows[row_i + 1][2])
        /\ ~\E id \in store.recs[COUNTRY].ids :
                Lower(Strip(id)) = Lower(Strip(Str(AllRows[row_i + 1][2]))))
       => \E i \in 1..Len(NewErrors) :
            /\ NewErrors[i].column = hCountry
            /\ NewErrors[i].code = get_readable_error_code("LINK_NOT_FOUND")
            /\ NewErrors[i].suggestions = <<>>]_vars

\* the year-like column of the sheets that have one: its position, or 0
YearColumn(sheet_name) ==
    IF sheet_name \in {EVENT, PROGRAM} THEN 1 ELSE IF sheet_name = LEDGER THEN 2 ELSE 0
\* the errors of the k-th data row on the column of header h
ColumnErrors(k, h) == SelectSeq(RowErrors(k), LAMBDA e : e.column = h)

\* C9: for a processed row and its non-blank cell v in a year-like column,
\* INVALID_YEAR is reported iff v does not parse as a year, INVALID_YEAR_RANGE
\* iff it parses to y with y < 1900 or y > current year + 1, and when the
\* column is not a Link these are the only errors the column gets; 'abc' gets
\* INVALID_YEAR, 1899 gets INVALID_YEAR_RANGE, '2024' gets neither
C9_YearErrors ==
    \A k \in 1..row_i :
        LET c == YearColumn(wb[sheet_input].name)
            v == AllRows[k][c]
            errs == ColumnErrors(k, wb[sheet_input].header_row[c].s)
            parsed == validate_year_value(v)
        IN  (c # 0 /\ ~BlankCell(v)) =>
                /\ HasCode(errs, "INVALID_YEAR") <=> ~parsed.ok
                /\ HasCode(errs, "INVALID_YEAR_RANGE")
                      <=> (parsed.ok /\ (parsed.y < 1900 \/ parsed.y > today_year + 1))
                /\ wb[sheet_input].name # PROGRAM =>
                      Len(errs) = (IF ~parsed.ok \/ parsed.y < 1900 \/ parsed.y > today_year + 1
                                   THEN 1 ELSE 0)
                /\ v = PyStr(<<"a", "b", "c">>) => HasCode(errs, "INVALID_YEAR")
                /\ v = PyInt(1899) => HasCode(errs, "INVALID_YEAR_RANGE")
                /\ v = PyStr(<<"2", "0", "2", "4">>) =>
                      ~HasCode(errs, "INVALID_YEAR") /\ ~HasCode(errs, "INVALID_YEAR_RANGE")

\* an Event row with Year 1899 has been processed and carries INVALID_YEAR_RANGE
C9_Witness ==
    /\ row_i >= 1
    /\ wb[sheet_input].name = EVENT
    /\ AllRows[1][1] = PyInt(1899)
    /\ HasCode(ColumnErrors(1, hYear), "INVALID_YEAR_RANGE")

\* C10 (as amended): with the current year 2025, a year cell 2026 gets no year
\* error and a year cell 2027 gets INVALID_YEAR_RANGE
C10_NextYearValid ==
    \A k \in 1..row_i :
        LET c == YearColumn(wb[sheet_input].name)
            errs == ColumnErrors(k, wb[sheet_input].header_row[c].s)
        IN  (c # 0 /\ today_year = 2025) =>
                /\ AllRows[k][c] = PyInt(2026) => errs = <<>>
                /\ AllRows[k][c] = PyInt(2027) => HasCode(errs, "INVALID_YEAR_RANGE")

\* an Event row with Year 2026 has been processed in 2025 without any error
C10_Witness ==
    /\ row_i >= 1
    /\ today_year = 2025
    /\ wb[sheet_input].name = EVENT
    /\ AllRows[1] = <<PyInt(2026), PyStr(India)>>
    /\ RowErrors(1) = <<>>

\* C10 (as stated): with the current year 2025, a year cell 2026 gets
\* INVALID_YEAR_RANGE
C10_NextYearRejected ==
    \A k \in 1..row_i :
        LET c == YearColumn(wb[sheet_input].name)
        IN  (c # 0 /\ today_year = 2025 /\ AllRows[k][c] = PyInt(2026)) =>
                HasCode(ColumnErrors(k, wb[sheet_input].header_row[c].s), "INVALID_YEAR_RANGE")

\* the cells the claim names valid in an Integer column: a whole number, a
\* boolean, a float without fraction, a text that reads as such a number
WholeNumberCell(v) ==
    \/ v.t \in {"int", "bool"}
    \/ v.t = "float" /\ v.n % 10 = 0
    \/ v.t = "str" /\ Strip(v.s) \in {<<"5">>, <<"5", ".", "0">>, <<"-", "5", ".">>}

\* C11: for a processed row of the Course sheet and its non-blank cell v in the
\* Integer column Seats, the column gets no error when v is a whole number,
\* and exactly one error, INVALID_INT, otherwise; 5, 5.0 and True are valid,
\* 5.5 and 'abc' are not
C11_IntegerCells ==
    \A k \in 1..row_i :
        (wb[sheet_input].name = COURSE /\ ~BlankCell(AllRows[k][1])) =>
            LET v == AllRows[k][1]
                errs == ColumnErrors(k, hSeats)
            IN  /\ WholeNumberCell(v) => errs = <<>>
                /\ ~WholeNumberCell(v) =>
                        Len(errs) = 1 /\ errs[1].code = get_readable_error_code("INVALID_INT")
                /\ v \in {PyInt(5), PyFloat(50), PyBool(TRUE)} => errs = <<>>
                /\ v \in {PyFloat(55), PyStr(<<"a", "b", "c">>)} => HasCode(errs, "INVALID_INT")
                /\ ws_output[k].error_count = Len(RowErrors(k))

\* a Course row with Seats 5.5 has been processed and carries one INVALID_INT
C11_Witness ==
    /\ row_i >= 1
    /\ wb[sheet_input].name = COURSE
    /\ AllRows[1] = <<PyFloat(55), PyStr(<<"n">>)>>
    /\ Len(ColumnErrors(1, hSeats)) = 1
    /\ HasCode(ColumnErrors(1, hSeats), "INVALID_INT")

\* the sequence small is the beginning of the sequence big
IsPrefix(small, big) == Len(small) <= Len(big) /\ SubSeq(big, 1, Len(small)) = small

\* C12: the i-th sheet result of a run is that of the i-th sheet of the
\* workbook; at the top of the sheet loop with more than the batch budget
\* elapsed, the next step starts no sheet (no prefetch, no row loop, no new
\* result) and returns the report; a run only appends to its sheet results,
\* and the report lists them all
C12_BudgetCheckedBeforeEachSheet ==
    /\ [](/\ \A i \in 1..Len(overall_stats.sheet_results) :
                overall_stats.sheet_results[i].sheet_name = wb[i].name
          /\ pc = "done" => response.sheet_results = overall_stats.sheet_results)
    /\ [][((pc = "sheets" /\ now - start_time > VALIDATION_TIMEOUT /\ now' = now)
              => (/\ pc' = "done"
                  /\ link_cache' = link_cache /\ link_cache_sizes' = link_cache_sizes
                  /\ overall_stats' = overall_stats
                  /\ response'.sheet_results = overall_stats.sheet_results))
           /\ (pc \in {"sheets", "rows"}
                 => IsPrefix(overall_stats.sheet_results, overall_stats'.sheet_results))]_vars

\* the batch budget ran out after the first of two sheets was completed: the
\* run ended with the long sheet's result alone in the report
C12_Witness ==
    /\ pc = "done"
    /\ Len(wb) = 2
    /\ now - start_time > VALIDATION_TIMEOUT
    /\ Len(response.sheet_results) = 1
    /\ response.sheet_results[1].success
    /\ response.sheet_results[1].total_rows = LongRows

\* the sum of the numbers of a sequence
RECURSIVE SumSeq(_)
SumSeq(numbers) == IF numbers = <<>> THEN 0 ELSE Head(numbers) + SumSeq(Tail(numbers))
ErrorCounts(results) == [i \in 1..Len(results) |-> results[i].error_count]
TotalRows(results) == [i \in 1..Len(results) |-> results[i].total_rows]

\* C13 (as stated): in the report of a finished run the total error count is
\* the sum of error_count, and the total row count the sum of total_rows, over
\* the sheet results the report lists
C13_TotalsAreSums ==
    pc = "done" =>
        /\ response.total_errors = SumSeq(ErrorCounts(response.sheet_results))
        /\ response.total_rows = SumSeq(TotalRows(response.sheet_results))

\* the json_errors of the results of a sequence, one after the other
RECURSIVE ConcatErrors(_)
ConcatErrors(results) ==
    IF results = <<>> THEN <<>> ELSE Head(results).json_errors \o ConcatErrors(Tail(results))

\* C14 (as stated): in the report of a finished run the flattened error list
\* is the concatenation, in sheet order, of the json_errors of the sheet
\* results the report lists
C14_ErrorsAreConcatenation ==
    pc = "done" => response.errors = ConcatErrors(response.sheet_results)

\* the codes of the reference checks, and a list of errors without them
LinkCodes == {get_readable_error_code("LINK_NOT_FOUND"),
              get_readable_error_code("LINK_CONFIG_ERROR")}
WithoutLinkErrors(errs) == SelectSeq(errs, LAMBDA e : e.code \notin LinkCodes)

\* what the body of the row loop gives for the next row when the flag is unset
\* (the sheet's prefetch done, the backing store answering)
UnsetRowBody ==
    RowBody(DoctypeName, RowIdx, headers, AllRows[row_i + 1], Fields, FALSE,
            prefetch_link_caches(link_cache, link_cache_sizes, store, Fields, "ok").cache,
            prefetch_link_caches(link_cache, link_cache_sizes, store, Fields, "ok").sizes,
            store, TRUE, set_order, today_year, seen_rows, seen_unique, seen_primary)

\* a row step with the flag set adds the errors b has without those of the
\* reference checks, and leaves the duplicate trackers as b does
SameButLinks(b) ==
    /\ NewErrors = WithoutLinkErrors(b.errors)
    /\ seen_rows' = b.seen_rows
    /\ seen_unique' = b.seen_unique
    /\ seen_primary' = b.seen_primary

\* C15: in a run with the skip flag set, no step changes the reference cache
\* or its size table, the report holds no LINK_NOT_FOUND and no
\* LINK_CONFIG_ERROR error, and every row gets the errors it would get with
\* the flag unset, less those two
C15_SkipLeavesOtherChecks ==
    /\ []((skip_links /\ pc = "done") => WithoutLinkErrors(response.errors) = response.errors)
    /\ [][((skip_links /\ pc \in {"sheets", "rows"})
              => (link_cache' = link_cache /\ link_cache_sizes' = link_cache_sizes))
           /\ ((skip_links /\ pc = "rows" /\ row_i' = row_i + 1)
                 => (WithoutLinkErrors(NewErrors) = NewErrors /\ SameButLinks(UnsetRowBody)))]_vars

\* with the flag set, an Event row with Year 1899 and the unknown Country
\* 'Narnia' has been processed: it carries the year error alone and nothing
\* was cached
C15_Witness ==
    /\ skip_links
    /\ row_i >= 1
    /\ wb[sheet_input].name = EVENT
    /\ AllRows[1] = <<PyInt(1899), PyStr(Narnia)>>
    /\ Len(RowErrors(1)) = 1
    /\ HasCode(RowErrors(1), "INVALID_YEAR_RANGE")
    /\ link_cache = EmptyCache /\ link_cache_sizes = EmptyCache

\* the "No. of Error" cells written to the output sheet, in row order
ErrorCountCells == [k \in 1..Len(ws_output) |-> ws_output[k].error_count]

\* C16: every processed row is written with hasError true exactly when its
\* errorCount is positive, and its errorCount is the number of structured
\* errors of that row; the result of a completed sheet has as error_count the
\* sum of the errorCounts written to its rows
C16_ErrorCountPerRow ==
    /\ Len(ws_output) = row_i
    /\ \A k \in 1..row_i :
            /\ ws_output[k].has_error <=> ws_output[k].error_count > 0
            /\ ws_output[k].error_count = Len(RowErrors(k))
    /\ (pc \in {"sheets", "done"} /\ overall_stats.sheet_results # <<>> /\ LastResult.success)
          => /\ LastResult.error_count = SumSeq(ErrorCountCells)
             /\ LastResult.total_rows = Len(ws_output)

\* a completed Student sheet of two rows: the first has two errors, the second
\* none, the sheet's error_count is 2
C16_Witness ==
    /\ pc = "done"
    /\ wb[1].name = STUDENT
    /\ Len(ws_output) = 2
    /\ ws_output[1].error_count = 2
    /\ ~ws_output[2].has_error
    /\ response.sheet_results[1].success
    /\ response.sheet_results[1].error_count = 2

\* the code of the failed result a failure of each kind ends the sheet with
FaultCode(kind) ==
    CASE kind = "meta" -> "DOCTYPE_ERROR"
      [] kind = "row" -> "PROCESSING_ERROR"
      [] kind = "timeout" -> "TIMEOUT_ERROR"
      [] OTHER -> ""
\* a bound on the steps a run still takes before it returns its report: one
\* per row left, two per sheet left, one for the return
RECURSIVE CostFrom(_)
CostFrom(i) == IF i > Len(wb) THEN 0 ELSE Len(wb[i].rows) + 2 + CostFrom(i + 1)
StepsLeft ==
    CASE pc = "sheets" -> 1 + CostFrom(sheet_idx)
      [] pc = "rows" -> 1 + (Len(AllRows) - row_i + 1) + CostFrom(sheet_idx + 1)
      [] OTHER -> 0
\* the failures a step has met
NewFaults == hist'.faults \ hist.faults

PrefetchedCountry ==
    /\ pc = "sheets" /\ pc' = "rows"
    /\ ~skip_links
    /\ wb[sheet_idx].name = EVENT
    /\ hist.stable /\ hist'.stable

\* a row of the Event sheet with a Country text is validated in this step,
\* Country being marked too large
LooksUpLargeCountry ==
    /\ pc = "rows" /\ row_i' = row_i + 1
    /\ ~skip_links
    /\ wb[sheet_input].name = EVENT
    /\ COUNTRY \in DOMAIN link_cache_sizes
    /\ link_cache_sizes[COUNTRY] > LINK_CACHE_LIMIT
    /\ ~BlankCell(AllRows[row_i + 1][2])

\* C18 (as stated): a prefetch that finds c Country records records c; with
\* c > LINK_CACHE_LIMIT it stores no identifier set, and while Country is
\* marked too large no row stores one and a Country text resolves by the
\* direct existence query (it resolves when the backing store has a record of
\* that name, and does not when it has none in any letter case);
\* with c <= LINK_CACHE_LIMIT (c = LINK_CACHE_LIMIT included) the identifier
\* set of the backing store is cached
C18_TooLargeIsNeverCached ==
    [][/\ PrefetchedCountry =>
            /\ link_cache_sizes'[COUNTRY] = DbCount(store, COUNTRY)
            /\ IF DbCount(store, COUNTRY) > LINK_CACHE_LIMIT
               THEN link_cache' = link_cache
               ELSE link_cache'[COUNTRY] = DbGetAll(store, COUNTRY)
       /\ LooksUpLargeCountry =>
            /\ link_cache' = link_cache
            /\ DbExists(store, COUNTRY, Strip(Str(AllRows[row_i + 1][2])))
                    => ~HasCode(NewErrors, "LINK_NOT_FOUND")
            /\ (~\E id \in store.recs[COUNTRY].ids :
                    Lower(Strip(id)) = Lower(Strip(Str(AllRows[row_i + 1][2]))))
                    => HasCode(NewErrors, "LINK_NOT_FOUND")]_vars

\* a data row with a cell that is neither None nor an empty or
\* whitespace-only text
NonBlankRow(row) == \E j \in 1..Len(row) : ~BlankHeaderCell(row[j])
NoNonBlankRows(rows) == \A k \in 1..Len(rows) : ~NonBlankRow(rows[k])

\* C19: the result of a sheet of a known DocType whose header row has no
\* defect, whose schema was loaded and which has no non-blank data row is a
\* failure with code NO_DATA_ROWS, total_rows 0 and the one synthetic error
\* (row 0), and the batch holds no row-level error of that sheet; the row
\* loop runs only on sheets with a non-blank data row
C19_NoDataRows ==
    /\ \A i \in 1..Len(overall_stats.sheet_results) :
            LET r == overall_stats.sheet_results[i]
            IN  (/\ wb[i].name \in store.doctypes
                 /\ HeaderDefects(wb[i].header_row) = {}
                 /\ r.error # "DOCTYPE_ERROR"
                 /\ NoNonBlankRows(wb[i].rows))
                => /\ ~r.success
                   /\ r.error = "NO_DATA_ROWS"
                   /\ r.total_rows = 0
                   /\ r.error_count = 1
                   /\ Len(r.json_errors) = 1
                   /\ r.json_errors[1].row = 0
                   /\ r.json_errors[1].code = get_readable_error_code("NO_DATA_ROWS")
                   /\ \A j \in 1..Len(overall_stats.all_json_errors) :
                        overall_stats.all_json_errors[j].sheet = wb[i].name
                            => overall_stats.all_json_errors[j].row = 0
    /\ pc = "rows" => ~NoNonBlankRows(AllRows)

\* the run on the sheet whose one data row is (None, ' ') has ended with
\* NO_DATA_ROWS
C19_Witness ==
    /\ pc = "done"
    /\ wb = <<BlankStudent>>
    /\ Len(response.sheet_results) = 1
    /\ response.sheet_results[1].error = "NO_DATA_ROWS"
    /\ Len(response.errors) = 1

\* C20: the rows of a sheet validated after its time budget was exceeded
\* (hist.late) are at most 100; at a row whose index is a multiple of 100,
\* with the budget exceeded, the sheet stops with TIMEOUT_ERROR and its
\* remaining rows are not validated; a row is validated with the budget
\* exceeded only at an index that is no multiple of 100
C20_AtMostHundredLateRows ==
    /\ [](hist.late <= CHECK_EVERY)
    /\ [][((pc = "rows" /\ row_i < Len(AllRows) /\ RowIdx % CHECK_EVERY = 0
             /\ now - sheet_start > SHEET_TIMEOUT /\ now' = now)
            => (pc' = "sheets" /\ row_i' = row_i /\ json_errors' = json_errors
                /\ overall_stats'.sheet_results[Len(overall_stats'.sheet_results)].error
                      = "TIMEOUT_ERROR"))
           /\ ((pc = "rows" /\ row_i' = row_i + 1 /\ now - sheet_start > SHEET_TIMEOUT)
               => (RowIdx % CHECK_EVERY # 0))]_vars

\* the budget was exceeded right after the checkpoint at row 100: the 99 rows
\* up to the checkpoint at row 200 were validated, then the sheet stopped with
\* rows left
C20_Witness ==
    /\ pc = "done"
    /\ hist.late = CHECK_EVERY - 1
    /\ row_i < Len(AllRows)
    /\ RowIdx = 2 * CHECK_EVERY
    /\ response.sheet_results[1].error = "TIMEOUT_ERROR"

\* C21: every entity type of the process-wide cache is in at most one tier: no
\* type has both a materialized identifier set and a recorded count above the
\* cache limit, and every materialized set has at most cache-limit elements
MaterializedSize(dt) == Cardinality(link_cache[dt].ids) + link_cache[dt].anon
C21_OneTierPerType ==
    \A dt \in DOMAIN link_cache :
        /\ ~(dt \in DOMAIN link_cache_sizes /\ link_cache_sizes[dt] > LINK_CACHE_LIMIT)
        /\ MaterializedSize(dt) <= LINK_CACHE_LIMIT

\* C22: within one batch run the cache entry of each entity type is assigned at
\* most once, also when several sheets of the batch refer to the same type, and
\* no entry is assigned while the rows of a sheet are processed
C22_WrittenOncePerRun ==
    /\ [](\A dt \in DOMAIN hist.writes : hist.writes[dt] <= 1)
    /\ [][pc = "rows" => hist.writes' = hist.writes]_vars

\* C23: when runs populate the cache of one entity type concurrently against an
\* unchanged backing store, the cache entry and the size record, once every run
\* has populated, are those one run alone leaves, and every lookup a run made
\* during the race has the result the lookup has against the fully populated
\* cache
PopulatedAlone ==
    prefetch_link_caches(EmptyCache, EmptyCache, store, MetaFields(EVENT), "ok")
LookAlone(value) ==
    validate_link_field(RaceField, value, RaceField.label, FALSE, PopulatedAlone.cache,
                        PopulatedAlone.sizes, store, TRUE, set_order)
C23_PopulationIsIdempotent ==
    Racing =>
        /\ (\A w \in 1..MaxRuns : race.at[w] = "look")
              => (link_cache = PopulatedAlone.cache /\ link_cache_sizes = PopulatedAlone.sizes)
        /\ \A r \in race.results : r.errs = LookAlone(r.value).errs

\* one run has populated and looked a value up with an error, another is
\* between its count and its assignment
C23_Witness ==
    /\ Racing
    /\ \E w \in 1..MaxRuns : race.at[w] \in {"size", "list", "assign"}
    /\ \E r \in race.results : r.errs # <<>> /\ r.errs[1].suggestions # <<>>
    /\ \E r \in race.results : r.errs = <<>> /\ r.value # PyNone

\* a row of the Event sheet is validated in this step whose Country text names
\* a record the backing store has and the materialized set of Country has not:
\* the record was created after the set was stored
StaleLookup ==
    /\ pc = "rows" /\ row_i' = row_i + 1
    /\ ~skip_links
    /\ wb[sheet_input].name = EVENT
    /\ ~BlankCell(AllRows[row_i + 1][2])
    /\ COUNTRY \in DOMAIN link_cache
    /\ ~CacheResolves(link_cache, COUNTRY, Strip(Str(AllRows[row_i + 1][2])))
    /\ DbExists(store, COUNTRY, Strip(Str(AllRows[row_i + 1][2])))

PrimaryKeyCell(k) == RowGet(headers, AllRows[k], get_primary_key(Fields, headers)[1])

\* C25 (as stated): in a sheet with a primary-key column a processed non-empty
\* row is flagged DUPLICATE_PRIMARY_KEY iff its primary-key value is non-blank
\* and an earlier non-empty row had the same value after trimming whitespace
\* only; values that differ in letter case are no duplicates and a first
\* occurrence is never flagged
C25_PrimaryKeyDuplicates ==
    (pc = "rows" /\ get_primary_key(Fields, headers) # <<>>) =>
        \A k \in 1..row_i :
            ~AllBlank(AllRows[k]) =>
                (HasCode(RowErrors(k), "DUPLICATE_PRIMARY_KEY")
                    <=> /\ ~BlankCell(PrimaryKeyCell(k))
                        /\ \E j \in 1..(k - 1) :
                              /\ ~AllBlank(AllRows[j])
                              /\ Strip(Str(PrimaryKeyCell(j))) = Strip(Str(PrimaryKeyCell(k))))

\* the unique columns of the current sheet and the cell of the k-th data row
\* in column c
UniqueColumns == get_unique_columns(Fields, headers)
CellAt(k, c) == RowGet(headers, AllRows[k], c)
FlaggedUnique(k, c) ==
    \E i \in 1..Len(RowErrors(k)) :
        /\ RowErrors(k)[i].code = get_readable_error_code("DUPLICATE_UNIQUE")
        /\ RowErrors(k)[i].column = c

\* C26 (as stated): a processed non-empty row gets DUPLICATE_UNIQUE on the
\* unique column c exactly when its value in c is non-blank and an earlier
\* non-empty row of the same sheet had the same trimmed value in c (no other
\* column, no primary key and no other sheet counts), and the three trackers
\* are empty when the rows of a sheet begin
C26_UniqueScopes ==
    /\ [](pc = "rows" =>
            \A k \in 1..row_i : \A n \in 1..Len(UniqueColumns) :
                ~AllBlank(AllRows[k]) =>
                    (FlaggedUnique(k, UniqueColumns[n])
                        <=> /\ ~BlankCell(CellAt(k, UniqueColumns[n]))
                            /\ \E j \in 1..(k - 1) :
                                  /\ ~AllBlank(AllRows[j])
                                  /\ Strip(Str(CellAt(j, UniqueColumns[n])))
                                        = Strip(Str(CellAt(k, UniqueColumns[n])))))
    /\ [][(pc = "sheets" /\ pc' = "rows")
            => (/\ seen_rows' = {}
                /\ seen_primary' = {}
                /\ \A c \in DOMAIN seen_unique' : seen_unique'[c] = {})]_vars

\* C27 (as stated): when an unexpected failure ends a sheet at row k, the sheet
\* result is a failure with PROCESSING_ERROR that keeps the structured errors
\* of the rows before k, and so does the report
C27_FailureKeepsPartial ==
    (/\ pc \in {"sheets", "done"}
     /\ overall_stats.sheet_results # <<>>
     /\ LastResult.error = "PROCESSING_ERROR")
    => /\ ~LastResult.success
       /\ AllIn(json_errors, LastResult.json_errors)
       /\ AllIn(json_errors, overall_stats.all_json_errors)
       /\ pc = "done" => AllIn(json_errors, response.errors)

\* the schema field of a column of the current sheet
ColumnField(column) == FieldOf(build_field_map(Fields, headers), column)
EitherContains(a, b) == IsSubstring(Lower(a), Lower(b)) \/ IsSubstring(Lower(b), Lower(a))
IsCode(e, code) == e.code = get_readable_error_code(code)

\* the suggestions of a LINK_NOT_FOUND error are at most 3 identifiers of the
\* materialized set of the column's target, each containing or contained in
\* the entered text without regard to letter case; none without such a set
SuggestionsFromCache(e, cache) ==
    /\ ColumnField(e.column).options # <<>>
    /\ Len(e.suggestions) <= MAX_SUGGESTIONS
    /\ \A n \in 1..Len(e.suggestions) :
          /\ ColumnField(e.column).options \in DOMAIN cache
          /\ e.suggestions[n] \in cache[ColumnField(e.column).options].ids
          /\ EitherContains(e.suggestions[n], Strip(e.value_entered))
    /\ ColumnField(e.column).options \notin DOMAIN cache => e.suggestions = <<>>

\* a Link column without target in the schema, its cell entered, gets
\* LINK_CONFIG_ERROR and no LINK_NOT_FOUND
ConfigErrorOnly(errs, column) ==
    /\ \E i \in 1..Len(errs) : errs[i].column = column /\ IsCode(errs[i], "LINK_CONFIG_ERROR")
    /\ ~\E i \in 1..Len(errs) : errs[i].column = column /\ IsCode(errs[i], "LINK_NOT_FOUND")

\* C28: every LINK_NOT_FOUND error of a validated row carries at most 3
\* suggestions, each an identifier of the materialized set of the target type
\* that contains or is contained in the entered value case-insensitively, and
\* none when the target has no materialized set; an entered cell of a Link
\* column whose schema names no target gets LINK_CONFIG_ERROR, not
\* LINK_NOT_FOUND
C28_SuggestionsAndConfigError ==
    [][(pc = "rows" /\ row_i' = row_i + 1 /\ ~skip_links) =>
        (/\ \A i \in 1..Len(NewErrors) :
               IsCode(NewErrors[i], "LINK_NOT_FOUND")
                   => SuggestionsFromCache(NewErrors[i], link_cache')
         /\ \A j \in 1..Len(headers) :
               (/\ ColumnField(headers[j]).fieldtype = "Link"
                /\ ColumnField(headers[j]).options = <<>>
                /\ ~BlankCell(AllRows[row_i + 1][j]))
               => ConfigErrorOnly(NewErrors, headers[j]))]_vars

\* 'Ind' was reported with three suggestions although four names of the
\* materialized Country set match it, and the Course row's Mentor, a Link
\* without target, with LINK_CONFIG_ERROR
C28_Witness ==
    /\ pc = "rows" /\ row_i >= 1
    /\ wb[sheet_input].name = COURSE
    /\ ConfigErrorOnly(RowErrors(1), hMentor)
    /\ \E i \in 1..Len(overall_stats.all_json_errors) :
          /\ IsCode(overall_stats.all_json_errors[i], "LINK_NOT_FOUND")
          /\ Len(overall_stats.all_json_errors[i].suggestions) = MAX_SUGGESTIONS
    /\ Cardinality({c \in link_cache[COUNTRY].ids : EitherContains(c, <<"I", "n", "d">>)}) > MAX_SUGGESTIONS

\* the result appended by this step, when the step appends one
ResultAdded == Len(overall_stats'.sheet_results) = Len(overall_stats.sheet_results) + 1
AddedResult == overall_stats'.sheet_results[Len(overall_stats'.sheet_results)]
\* this step ends a sheet all of whose rows were consumed
CompletesSheet == pc = "rows" /\ pc' = "sheets" /\ row_i = Len(AllRows)

\* C29: the step that ends a sheet whose rows were all consumed appends a
\* result with success = true whatever the number of row errors, total_rows the
\* number of input data rows, and one output row per data row in input order,
\* and counts the sheet as validated; every other result is no success and is
\* not counted, so validated_sheets is the number of completed sheets
C29_CompletedSheets ==
    /\ [](overall_stats.validated_sheets
            = Cardinality({i \in 1..Len(overall_stats.sheet_results) :
                            overall_stats.sheet_results[i].success}))
    /\ [][(CompletesSheet
             => (/\ ResultAdded
                 /\ AddedResult.success
                 /\ AddedResult.sheet_name = DoctypeName
                 /\ AddedResult.total_rows = Len(wb[sheet_input].rows)
                 /\ AddedResult.json_errors = json_errors
                 /\ Len(ws_output) = Len(wb[sheet_input].rows)
                 /\ (\A k \in 1..Len(ws_output) : ws_output[k].row = k + FIRST_ROW_IDX - 1)
                 /\ overall_stats'.validated_sheets = overall_stats.validated_sheets + 1))
           /\ ((ResultAdded /\ ~CompletesSheet)
               => (/\ ~AddedResult.success
                   /\ overall_stats'.validated_sheets = overall_stats.validated_sheets))]_vars

\* a run ended in which the Event sheet was completed with row errors and
\* counted, and the other sheet was not
C29_Witness ==
    /\ pc = "done"
    /\ Len(response.sheet_results) = 2
    /\ response.validated_sheets = 1
    /\ \E i \in 1..2 :
          /\ response.sheet_results[i].success
          /\ response.sheet_results[i].sheet_name = EVENT
          /\ response.sheet_results[i].error_count > 0
          /\ response.sheet_results[i].total_rows = Len(LinkRows)

\* the sheet names of a list of results
ResultNames(results) == [i \in 1..Len(results) |-> results[i].sheet_name]
\* a result is in exactly one terminal state: completed (success, no error
\* code), or failed or timed out (no success, an error code)
OneTerminalState(r) == (r.success /\ r.error = "") \/ (~r.success /\ r.error # "")

\* C30: a run in progress can always take a step and every step of it brings
\* the report nearer (StepsLeft decreases), so the run over a finite workbook
\* ends; the results listed at any moment are those of the started sheets in
\* input order, the sheet in progress excepted, and the report lists exactly
\* one result per started sheet, in input order, each in one terminal state
C30_RunEndsWithOneResultPerSheet ==
    /\ [](pc \in {"sheets", "rows"} =>
            (/\ StepsLeft > 0
             /\ sheet_idx <= Len(wb) + 1
             /\ pc = "rows" => (sheet_idx <= Len(wb) /\ row_i <= Len(AllRows))))
    /\ [][(pc \in {"sheets", "rows"} /\ now' = now)
            => (StepsLeft' < StepsLeft /\ pc' \in {"sheets", "rows", "done"})]_vars
    /\ [](/\ IsPrefix(hist.started, [i \in 1..Len(wb) |-> wb[i].name])
          /\ IsPrefix(ResultNames(overall_stats.sheet_results), hist.started)
          /\ pc \in {"sheets", "done"}
                => ResultNames(overall_stats.sheet_results) = hist.started
          /\ \A i \in 1..Len(overall_stats.sheet_results) :
                OneTerminalState(overall_stats.sheet_results[i])
          /\ pc = "done" => response.sheet_results = overall_stats.sheet_results)

\* the long sheet timed out and the batch budget was exceeded before the
\* second sheet was started: the report lists the one started sheet
C30_Witness ==
    /\ pc = "done"
    /\ Len(wb) = 2
    /\ hist.started = <<STUDENT>>
    /\ Len(response.sheet_results) = 1
    /\ response.sheet_results[1].error = "TIMEOUT_ERROR"

\* C31: structure_valid of the final report is true only if every sheet of
\* the input was started, every listed sheet result has success = true and no
\* sheet result carries a structured error; a report with a failed, timed-out
\* or unknown-entity-type sheet never has structure_valid = true
C31_StructureValidMeansClean ==
    (pc = "done" /\ response.structure_valid) =>
        /\ Len(hist.started) = Len(wb)
        /\ \A i \in 1..Len(response.sheet_results) :
              /\ response.sheet_results[i].success
              /\ response.sheet_results[i].json_errors = <<>>

====
